---- MODULE Spec2Model ----
(***************************************************************************)
(* State-space linear-system algebra of sharpy/linear/src/libss.py.        *)
(*                                                                         *)
(* Arrays are numpy arrays with integer entries.  A base array lives in    *)
(* `heap`; a model holds references (buffer index plus the shape of the    *)
(* leading slice it sees), so that two models, or a model and a slice of   *)
(* it, can share storage exactly as the Python objects do.                 *)
(***************************************************************************)
EXTENDS Integers, Sequences, FiniteSets, TLC

VARIABLES
    heap,   \* sequence of base arrays (the numpy buffers allocated so far)
    objs,   \* sequence of objects the caller holds: ss models, scipy models, gains
    ret,    \* outcome of the last call: operation, exception raised, value returned
    steps   \* number of calls made so far

vars == <<heap, objs, ret, steps>>

-----------------------------------------------------------------------------
(* Bounds of the model *)

\* number of method calls explored on one model
MaxSteps == 2
\* number of impulse-response (Markov) coefficients compared
MarkovLen == 5

\* numbers of states, inputs and outputs of the models explored
ModelDims == {1, 2}

-----------------------------------------------------------------------------
(* numpy arrays as values *)

\* an nd-dimensional array; a 1-D array of length r is stored with c = 1
Arr(nd, r, c, F(_, _)) ==
    [nd |-> nd, r |-> r, c |-> c,
     e |-> [i \in 1..r |-> [j \in 1..c |-> F(i, j)]]]

\* deterministic caller data: entries in -1..1 that vary with the seed
Gen(nd, r, c, s) == Arr(nd, r, c, LAMBDA i, j: ((s + 2 * i + j + i * j * s) % 3) - 1)

zeros(r, c) == Arr(2, r, c, LAMBDA i, j: 0)

eye(n) == Arr(2, n, n, LAMBDA i, j: IF i = j THEN 1 ELSE 0)

RECURSIVE SumF(_, _)
SumF(f, n) == IF n = 0 THEN 0 ELSE f[n] + SumF(f, n - 1)

\* numpy's X.dot(Y) is defined when the contracted lengths agree
DotOk(X, Y) ==
    CASE X.nd = 2 /\ Y.nd = 2 -> X.c = Y.r
      [] X.nd = 2 /\ Y.nd = 1 -> X.c = Y.r
      [] X.nd = 1 /\ Y.nd = 2 -> X.r = Y.r
      [] OTHER -> X.r = Y.r

\* libsp.dot on dense operands: the numpy product, vector operands included
dot(X, Y) ==
    CASE X.nd = 2 /\ Y.nd = 2 ->
            Arr(2, X.r, Y.c,
                LAMBDA i, j: SumF([k \in 1..X.c |-> X.e[i][k] * Y.e[k][j]], X.c))
      [] X.nd = 2 /\ Y.nd = 1 ->
            Arr(1, X.r, 1,
                LAMBDA i, j: SumF([k \in 1..X.c |-> X.e[i][k] * Y.e[k][1]], X.c))
      [] X.nd = 1 /\ Y.nd = 2 ->
            Arr(1, Y.c, 1,
                LAMBDA i, j: SumF([k \in 1..X.r |-> X.e[k][1] * Y.e[k][i]], X.r))
      [] OTHER ->
            Arr(0, 1, 1,
                LAMBDA i, j: SumF([k \in 1..X.r |-> X.e[k][1] * Y.e[k][1]], X.r))

Add(X, Y) == Arr(X.nd, X.r, X.c, LAMBDA i, j: X.e[i][j] + Y.e[i][j])

Scal(w, X) == Arr(X.nd, X.r, X.c, LAMBDA i, j: w * X.e[i][j])

transpose(X) == Arr(2, X.c, X.r, LAMBDA i, j: X.e[j][i])

\* np.block([X, Y]) / np.concatenate(axis=1)
hstack(X, Y) ==
    Arr(2, X.r, X.c + Y.c, LAMBDA i, j: IF j <= X.c THEN X.e[i][j] ELSE Y.e[i][j - X.c])

\* np.block([[X], [Y]]) / np.concatenate(axis=0)
vstack(X, Y) ==
    Arr(2, X.r + Y.r, X.c, LAMBDA i, j: IF i <= X.r THEN X.e[i][j] ELSE Y.e[i - X.r][j])

\* np.block([[X11, X12], [X21, X22]])
block2(X11, X12, X21, X22) == vstack(hstack(X11, X12), hstack(X21, X22))

Same2D(X, Y) == X.nd = 2 /\ Y.nd = 2 /\ X.r = Y.r /\ X.c = Y.c

-----------------------------------------------------------------------------
(* The heap: base arrays, references and slices *)

\* a reference to the leading (r, c) slice of base array number buf
Ref(buf, X) == [buf |-> buf, nd |-> X.nd, r |-> X.r, c |-> X.c]

\* the array a reference denotes in heap h
val(h, ref) == Arr(ref.nd, ref.r, ref.c, LAMBDA i, j: h[ref.buf].e[i][j])

\* allocate a new base array holding X
alloc(h, X) == [h |-> Append(h, X), ref |-> Ref(Len(h) + 1, X)]

NoRef == [buf |-> 0, nd |-> 0, r |-> 0, c |-> 0]

-----------------------------------------------------------------------------
(* Sampling intervals.  dt = None is NoDt.  A float dt is a base value     *)
(* plus a number of units in the last place: two intervals with the same   *)
(* base differ by rounding only (far below 1e-13 relative), two intervals  *)
(* with different bases differ by far more than 1e-10 relative.            *)

NoDt == [base |-> 0, ulp |-> 0]

Dt(b, u) == [base |-> b, ulp |-> u]

-----------------------------------------------------------------------------
(* Outcomes of a call *)

\* op was called on (or returned) object number obj, raised exc ("" if it
\* returned) and returned val
Out(op, obj, exc, v) == [op |-> op, obj |-> obj, exc |-> exc, val |-> v]

-----------------------------------------------------------------------------
(* class ss *)

\* mutant: the getter returns the stored value without recomputing it
inputs_stored(o) == o._inputs

\* ss.inputs getter: recomputed from B on every read
inputs(o) == IF o.B.nd = 1 THEN 1 ELSE o.B.c

\* ss.outputs getter: recomputed from C on every read
outputs(o) == o.C.r

\* ss.states getter: recomputed from A on every read
states(o) == o.A.r

\* the getters store what they return through the property setters
readIn(o) == [o EXCEPT !._inputs = inputs(o)]
readOut(o) == [o EXCEPT !._outputs = outputs(o)]
readSt(o) == [o EXCEPT !._states = states(o)]

\* mutant: the constructor without its check of D against the inputs
ss_init_exc_noD(A, B, C, D) ==
    LET st == B.r
        out == C.r
    IN  IF ~(A.nd = 2 /\ A.r = st /\ A.c = st) THEN "AssertionError"
        ELSE IF C.nd < 2 THEN "IndexError"
        ELSE IF C.c # st THEN "AssertionError"
        ELSE IF D.r # out THEN "AssertionError"
        ELSE ""

\* ss.__init__: the exception it raises ("" when the model is built)
ss_init_exc(A, B, C, D) ==
    LET st == B.r
        inp == IF B.nd = 1 THEN 1 ELSE B.c
        out == C.r
    IN  IF ~(A.nd = 2 /\ A.r = st /\ A.c = st) THEN "AssertionError"
        ELSE IF C.nd < 2 THEN "IndexError"
        ELSE IF C.c # st THEN "AssertionError"
        ELSE IF D.r # out THEN "AssertionError"
        ELSE IF D.nd >= 2 /\ D.c # inp THEN "AssertionError"
        ELSE IF D.nd < 2 /\ inp # 1 THEN "AssertionError"
        ELSE ""

\* ss.__init__: the object built from four array references
ss_init(A, B, C, D, dt) ==
    [cls |-> "ss", A |-> A, B |-> B, C |-> C, D |-> D, dt |-> dt,
     _inputs |-> IF B.nd = 1 THEN 1 ELSE B.c,
     _outputs |-> C.r,
     _states |-> B.r]

\* result of a method: new heap, new object, exception raised ("" if none)
Res(h, o, exc) == [h |-> h, o |-> o, exc |-> exc]

\* ss.addGain(K, where): B, D (or C, D) are replaced by new product arrays
ss_addGain(h, o, K, where) ==
    IF where \notin {"in", "out"} THEN Res(h, o, "AssertionError")
    ELSE IF where = "in" THEN
        IF ~DotOk(val(h, o.B), val(h, K)) THEN Res(h, o, "ValueError")
        ELSE LET b == alloc(h, dot(val(h, o.B), val(h, K)))
                 o1 == [o EXCEPT !.B = b.ref]
             IN  IF ~DotOk(val(h, o.D), val(h, K)) THEN Res(b.h, o1, "ValueError")
                 ELSE LET d == alloc(b.h, dot(val(h, o.D), val(h, K)))
                      IN  Res(d.h, [o1 EXCEPT !.D = d.ref], "")
    ELSE
        IF ~DotOk(val(h, K), val(h, o.C)) THEN Res(h, o, "ValueError")
        ELSE LET c == alloc(h, dot(val(h, K), val(h, o.C)))
                 o1 == [o EXCEPT !.C = c.ref]
             IN  IF ~DotOk(val(h, K), val(h, o.D)) THEN Res(c.h, o1, "ValueError")
                 ELSE LET d == alloc(c.h, dot(val(h, K), val(h, o.D)))
                      IN  Res(d.h, [o1 EXCEPT !.D = d.ref], "")

\* mutant: the output matrix is left as it was
project_C_kept(C, V) == C

\* self.C = libsp.dot(self.C, V)
project_C(C, V) == dot(C, V)

\* ss.project(WT, V): A, B, C replaced one after the other, then states set
ss_project(h, o, WT, V) ==
    LET w == val(h, WT)
        v == val(h, V)
    IN  IF ~DotOk(val(h, o.A), v) THEN Res(h, o, "ValueError")
        ELSE IF ~DotOk(w, dot(val(h, o.A), v)) THEN Res(h, o, "ValueError")
        ELSE LET a == alloc(h, dot(w, dot(val(h, o.A), v)))
                 o1 == [o EXCEPT !.A = a.ref]
             IN  IF ~DotOk(w, val(h, o.B)) THEN Res(a.h, o1, "ValueError")
                 ELSE LET b == alloc(a.h, dot(w, val(h, o.B)))
                          o2 == [o1 EXCEPT !.B = b.ref]
                      IN  IF ~DotOk(val(h, o.C), v) THEN Res(b.h, o2, "ValueError")
                          ELSE LET c == alloc(b.h, project_C(val(h, o.C), v))
                               IN  Res(c.h, [o2 EXCEPT !.C = c.ref, !._states = V.c], "")

Min(a, b) == IF a < b THEN a ELSE b

\* ss.truncate(N): A, B, C become leading slices (views) of their arrays
ss_truncate(h, o, N) ==
    IF N <= 0 THEN Res(h, o, "AssertionError")
    ELSE IF N > states(o) THEN Res(h, readSt(o), "AssertionError")
    ELSE LET o1 == [readSt(o) EXCEPT !.A.r = Min(N, @), !.A.c = Min(N, @)]
         IN  IF o.B.nd # 2 THEN Res(h, o1, "IndexError")
             ELSE LET o2 == [o1 EXCEPT !.B.r = Min(N, @)]
                  IN  IF o.C.nd # 2 THEN Res(h, o2, "IndexError")
                      ELSE Res(h, [o2 EXCEPT !.C.c = Min(N, @)], "")

-----------------------------------------------------------------------------
(* scale_SS: in-place column and row scalings *)

\* what a call returns when it returns no object (None, or it raised)
NoObj == [cls |-> "None"]

Abs(x) == IF x < 0 THEN -x ELSE x

\* x / s for the entries on which the float quotient is an integer
Quot(x, s) == IF s > 0 THEN (IF x >= 0 THEN x \div s ELSE -((-x) \div s))
              ELSE (IF x >= 0 THEN -(x \div (-s)) ELSE (-x) \div (-s))

Divides(s, x) == s # 0 /\ Abs(x) % Abs(s) = 0

\* a scaling argument: a float (applied to every channel) or a list
Scalar(v) == [isList |-> FALSE, v |-> <<v>>]
List(v) == [isList |-> TRUE, v |-> v]

\* mutant: a scalar factor reaches the first channel only
bcast_first(s, N) == IF s.isList THEN s.v ELSE [k \in 1..N |-> IF k = 1 THEN s.v[1] ELSE 1]

\* a float is repeated for every channel: Nin * [input_scal]
bcast(s, N) == IF s.isList THEN s.v ELSE [k \in 1..N |-> s.v[1]]

\* the assignments of the three loops of scale_SS, in program order
ScaleOps(Nin, Nout, Nst, isc, osc, ssc) ==
    [k \in 1..(2 * Nin) |->
        [f |-> IF k % 2 = 1 THEN "B" ELSE "D", ax |-> "col",
         k |-> (k + 1) \div 2, mul |-> TRUE, s |-> isc[(k + 1) \div 2]]]
    \o
    [k \in 1..(2 * Nout) |->
        [f |-> IF k % 2 = 1 THEN "C" ELSE "D", ax |-> "row",
         k |-> (k + 1) \div 2, mul |-> FALSE, s |-> osc[(k + 1) \div 2]]]
    \o
    [k \in 1..(2 * Nst) |->
        [f |-> IF k % 2 = 1 THEN "B" ELSE "C",
         ax |-> IF k % 2 = 1 THEN "row" ELSE "col",
         k |-> (k + 1) \div 2, mul |-> (k % 2 = 0), s |-> ssc[(k + 1) \div 2]]]

field(o, f) == CASE f = "A" -> o.A [] f = "B" -> o.B [] f = "C" -> o.C [] OTHER -> o.D

\* X[:, k] and X[k, :] exist only on a 2-D array with that column or row
CanIndex(ref, op) ==
    ref.nd = 2 /\ (IF op.ax = "col" THEN op.k <= ref.c ELSE op.k <= ref.r)

Touched(ref, op, i, j) ==
    i <= ref.r /\ j <= ref.c /\ (IF op.ax = "col" THEN j = op.k ELSE i = op.k)

OpExact(h, ref, op) ==
    op.mul \/ \A i \in 1..ref.r, j \in 1..ref.c :
                 Touched(ref, op, i, j) => Divides(op.s, h[ref.buf].e[i][j])

\* X[:, k] = X[:, k] * s or X[k, :] = X[k, :] / s, written through the reference
ApplyOp(h, ref, op) ==
    LET old == h[ref.buf]
    IN  [h EXCEPT ![ref.buf].e =
            [i \in 1..old.r |-> [j \in 1..old.c |->
                IF Touched(ref, op, i, j)
                THEN (IF op.mul THEN old.e[i][j] * op.s ELSE Quot(old.e[i][j], op.s))
                ELSE old.e[i][j]]]]

\* run the assignments from number k on; stops at the first IndexError
RECURSIVE RunOps(_, _, _, _)
RunOps(h, o, ops, k) ==
    IF k > Len(ops) THEN [h |-> h, exc |-> "", exact |-> TRUE]
    ELSE LET op == ops[k]
             ref == field(o, op.f)
         IN  IF ~CanIndex(ref, op) THEN [h |-> h, exc |-> "IndexError", exact |-> TRUE]
             ELSE IF ~OpExact(h, ref, op) THEN [h |-> h, exc |-> "", exact |-> FALSE]
             ELSE RunOps(ApplyOp(h, ref, op), o, ops, k + 1)

\* mutant: the copy shares the arrays of the original
deepcopy_shallow(h, o) == [h |-> h, o |-> o]

\* copy.deepcopy(SSin): a new object on four new base arrays
deepcopy(h, o) ==
    LET a == alloc(h, val(h, o.A))
        b == alloc(a.h, val(h, o.B))
        c == alloc(b.h, val(h, o.C))
        d == alloc(c.h, val(h, o.D))
    IN  [h |-> d.h, o |-> [o EXCEPT !.A = a.ref, !.B = b.ref, !.C = c.ref, !.D = d.ref]]

\* scale_SS(SSin, input_scal, output_scal, state_scal, byref):
\* o is the operand afterwards, out the object returned
scale_SS(h, o, isc, osc, ssc, byref) ==
    LET o0 == readOut(readIn(o))
        Nin == inputs(o)
        Nout == outputs(o)
        Nst == o.A.r
        bad == \/ isc.isList /\ Len(isc.v) # Nin
               \/ osc.isList /\ Len(osc.v) # Nout
               \/ ssc.isList /\ Len(ssc.v) # Nst
        cp == IF byref THEN [h |-> h, o |-> o0] ELSE deepcopy(h, o0)
        run == RunOps(cp.h, cp.o,
                      ScaleOps(Nin, Nout, Nst, bcast(isc, Nin), bcast(osc, Nout),
                               bcast(ssc, Nst)), 1)
    IN  IF bad THEN [h |-> h, o |-> o0, out |-> o0, exc |-> "AssertionError", exact |-> TRUE]
        ELSE [h |-> run.h, o |-> o0, out |-> cp.o, exc |-> run.exc, exact |-> run.exact]

\* ss.scale: scale_SS by reference; the method itself returns nothing
ss_scale(h, o, isc, osc, ssc) ==
    [scale_SS(h, o, isc, osc, ssc, TRUE) EXCEPT !.out = NoObj]

-----------------------------------------------------------------------------
(* remove_inout_channels *)

\* the 0/1 selection gain: row ith has its 1 in column retain[ith]
\* mutant: the selection keeps the leading channels, whatever retain names
gain_matrix_leading(retain, m) ==
    Arr(2, Len(retain), m, LAMBDA i, j: IF i = j THEN 1 ELSE 0)

gain_matrix(retain, m) ==
    Arr(2, Len(retain), m, LAMBDA i, j: IF retain[i] + 1 = j THEN 1 ELSE 0)

remove_inout_channels(h, o, retain, where) ==
    IF where \notin {"in", "out"} THEN Res(h, o, "NameError")
    ELSE LET o0 == IF where = "in" THEN readIn(o) ELSE readOut(o)
             m == IF where = "in" THEN inputs(o) ELSE outputs(o)
         IN  IF \E i \in 1..Len(retain) : retain[i] >= m THEN Res(h, o0, "IndexError")
             ELSE LET g == gain_matrix(retain, m)
                      k == alloc(h, IF where = "in" THEN transpose(g) ELSE g)
                  IN  ss_addGain(k.h, o0, k.ref, where)

-----------------------------------------------------------------------------
(* Linear solves (libsp.solve, libsp.eye_as) on integer matrices *)

Minor(X, a, b) ==
    Arr(2, X.r - 1, X.c - 1,
        LAMBDA i, j: X.e[IF i < a THEN i ELSE i + 1][IF j < b THEN j ELSE j + 1])

RECURSIVE Det(_)
Det(X) ==
    IF X.r = 0 THEN 1
    ELSE IF X.r = 1 THEN X.e[1][1]
    ELSE SumF([j \in 1..X.c |->
                 (IF j % 2 = 1 THEN 1 ELSE -1) * X.e[1][j] * Det(Minor(X, 1, j))], X.c)

Adj(X) ==
    Arr(2, X.r, X.c,
        LAMBDA i, j: (IF (i + j) % 2 = 0 THEN 1 ELSE -1) * Det(Minor(X, j, i)))

\* libsp.eye_as(X): the identity of X's dimension
eye_as(X) == eye(X.r)

\* the solution Z of L Z = K exists (L is not singular)
SolveOk(L) == Det(L) # 0

\* ... and has integer entries
SolveExact(L, K) ==
    LET num == dot(Adj(L), K)
    IN  \A i \in 1..num.r, j \in 1..num.c : Divides(Det(L), num.e[i][j])

\* libsp.solve(L, K): Z with L Z = K
solve(L, K) ==
    LET num == dot(Adj(L), K)
    IN  Arr(2, num.r, num.c, LAMBDA i, j: Quot(num.e[i][j], Det(L)))

-----------------------------------------------------------------------------
(* Results of the module-level functions *)

\* heap afterwards, object returned, exception raised ("" if it returned)
R(h, out, exc) == [h |-> h, out |-> out, exc |-> exc]

\* an object of class cls on four newly allocated arrays
mk(h, cls, A, B, C, D, dt) ==
    LET a == alloc(h, A)
        b == alloc(a.h, B)
        c == alloc(b.h, C)
        d == alloc(c.h, D)
    IN  [h |-> d.h,
         o |-> [ss_init(a.ref, b.ref, c.ref, d.ref, dt) EXCEPT !.cls = cls]]

\* ss(A, B, C, D, dt) called by a function of the module on arrays it built
new_ss(h, A, B, C, D, dt) ==
    LET m == mk(h, "ss", A, B, C, D, dt)
        exc == ss_init_exc(m.o.A, m.o.B, m.o.C, m.o.D)
    IN  IF exc = "" THEN R(m.h, m.o, "") ELSE R(h, NoObj, exc)

IsGain(o) == o.cls = "ndarray"
\* isinstance(o, scsig.ltisys.StateSpaceDiscrete)
IsDlti(o) == o.cls = "dlti"

\* a gain matrix held by the caller
gain(ref) == [cls |-> "ndarray", A |-> ref]

-----------------------------------------------------------------------------
(* Comparisons of sampling intervals *)

\* mutant: any two sampling intervals pass
dt_any(dt1, dt2) == TRUE

\* np.abs(dt1 - dt2) < 1e-10 * dt1
dt_close(dt1, dt2) == dt1.base = dt2.base

\* np.abs(1. - dt1 / dt2) < 1e-13
dt_ratio_close(dt1, dt2) == dt1.base = dt2.base

-----------------------------------------------------------------------------
(* couple *)

\* mutant: the coupling gains are used without resolving the algebraic loop
cpl_plain(L, K) == K

\* cpl_12 = libsp.solve(L1, K12), cpl_21 = libsp.solve(L2, K21)
cpl(L, K) == solve(L, K)

\* mutant: a diagonal block that keeps the coupling term only
couple_diag_dropped(X, L, K, Rt) == dot(dot(L, K), Rt)

\* a diagonal block, e.g. A1 + libsp.dot(libsp.dot(B1, cpl_11), C1)
couple_diag(X, L, K, Rt) == Add(X, dot(dot(L, K), Rt))

\* mutant: a sparse-output request is served by the dense path
couple_densify(out_sparse) == FALSE

\* if out_sparse: raise NameError('out_sparse=True not supported yet ...')
couple_sparse_path(out_sparse) == out_sparse

couple(h, s1, s2, k12, k21, out_sparse) ==
    LET K12 == val(h, k12.A)
        K21 == val(h, k21.A)
        A1 == val(h, s1.A)
        B1 == val(h, s1.B)
        C1 == val(h, s1.C)
        D1 == val(h, s1.D)
        A2 == val(h, s2.A)
        B2 == val(h, s2.B)
        C2 == val(h, s2.C)
        D2 == val(h, s2.D)
        K11 == dot(K12, dot(D2, K21))
        K22 == dot(K21, dot(D1, K12))
        L1 == Add(dot(Scal(-1, K11), D1), eye_as(dot(Scal(-1, K11), D1)))
        L2 == Add(dot(Scal(-1, K22), D2), eye_as(dot(Scal(-1, K22), D2)))
        cpl_12 == cpl(L1, K12)
        cpl_21 == cpl(L2, K21)
        cpl_11 == dot(cpl_12, dot(D2, K21))
        cpl_22 == dot(cpl_21, dot(D1, K12))
        A == block2(couple_diag(A1, B1, cpl_11, C1), dot(dot(B1, cpl_12), C2),
                    dot(dot(B2, cpl_21), C1), couple_diag(A2, B2, cpl_22, C2))
        C == block2(couple_diag(C1, D1, cpl_11, C1), dot(dot(D1, cpl_12), C2),
                    dot(dot(D2, cpl_21), C1), couple_diag(C2, D2, cpl_22, C2))
        B == block2(couple_diag(B1, B1, cpl_11, D1), dot(dot(B1, cpl_12), D2),
                    dot(dot(B2, cpl_21), D1), couple_diag(B2, B2, cpl_22, D2))
        D == block2(couple_diag(D1, D1, cpl_11, D1), dot(dot(D1, cpl_12), D2),
                    dot(dot(D2, cpl_21), D1), couple_diag(D2, D2, cpl_22, D2))
    IN  IF s1.dt = NoDt \/ s2.dt = NoDt THEN R(h, NoObj, "TypeError")
        ELSE IF ~dt_close(s1.dt, s2.dt) THEN R(h, NoObj, "AssertionError")
        ELSE IF ~(K12.nd = 2 /\ K12.r = inputs(s1) /\ K12.c = outputs(s2))
             THEN R(h, NoObj, "AssertionError")
        ELSE IF ~(K21.nd = 2 /\ K21.r = inputs(s2) /\ K21.c = outputs(s1))
             THEN R(h, NoObj, "AssertionError")
        ELSE IF s1.cls # "ss" \/ s2.cls # "ss" THEN R(h, NoObj, "AttributeError")
        ELSE IF s1.B.nd # 2 \/ s2.B.nd # 2 THEN R(h, NoObj, "ValueError")
        ELSE IF ~SolveOk(L1) \/ ~SolveOk(L2) THEN R(h, NoObj, "LinAlgError")
        ELSE IF couple_sparse_path(out_sparse) THEN R(h, NoObj, "NameError")
        ELSE new_ss(h, A, B, C, D, s1.dt)

\* the solves of couple stay within the integers
couple_exact(h, s1, s2, k12, k21) ==
    LET K12 == val(h, k12.A)
        K21 == val(h, k21.A)
        D1 == val(h, s1.D)
        D2 == val(h, s2.D)
        ok == /\ s1.dt # NoDt /\ s2.dt # NoDt /\ dt_close(s1.dt, s2.dt)
              /\ K12.nd = 2 /\ K12.r = inputs(s1) /\ K12.c = outputs(s2)
              /\ K21.nd = 2 /\ K21.r = inputs(s2) /\ K21.c = outputs(s1)
              /\ s1.cls = "ss" /\ s2.cls = "ss" /\ s1.B.nd = 2 /\ s2.B.nd = 2
        L1 == Add(dot(Scal(-1, dot(K12, dot(D2, K21))), D1), eye(K12.r))
        L2 == Add(dot(Scal(-1, dot(K21, dot(D1, K12))), D2), eye(K21.r))
    IN  ok => /\ SolveOk(L1) => SolveExact(L1, K12)
              /\ SolveOk(L2) => SolveExact(L2, K21)

-----------------------------------------------------------------------------
(* series, parallel *)

\* mutant: a cascade that loses its direct term
series_D_none(D1, D2) == zeros(D2.r, D1.c)

\* D = libsp.dot(SS02.D, SS01.D)
series_D(D1, D2) == dot(D2, D1)

series(h, s1, s2) ==
    LET A1 == val(h, s1.A)
        B1 == val(h, s1.B)
        C1 == val(h, s1.C)
        D1 == val(h, s1.D)
        A2 == val(h, s2.A)
        B2 == val(h, s2.B)
        C2 == val(h, s2.C)
        D2 == val(h, s2.D)
        A == block2(A1, zeros(A1.r, A2.c), dot(B2, C1), A2)
        B == vstack(B1, dot(B2, D1))
        C == hstack(dot(D2, C1), C2)
        D == series_D(D1, D2)
    IN  IF s1.cls # s2.cls THEN R(h, NoObj, "NameError")
        ELSE IF s1.dt # s2.dt THEN R(h, NoObj, "NameError")
        ELSE IF s1.cls # "ss" THEN R(h, NoObj, "AttributeError")
        ELSE IF ~DotOk(B2, C1) THEN R(h, NoObj, "ValueError")
        ELSE new_ss(h, A, B, C, D, s1.dt)

parallel(h, s1, s2) ==
    LET A1 == val(h, s1.A)
        B1 == val(h, s1.B)
        C1 == val(h, s1.C)
        D1 == val(h, s1.D)
        A2 == val(h, s2.A)
        B2 == val(h, s2.B)
        C2 == val(h, s2.C)
        D2 == val(h, s2.D)
        A == block2(A1, zeros(A1.r, A2.c), zeros(A2.r, A1.c), A2)
        B == block2(B1, zeros(B1.r, B2.c), zeros(B2.r, B1.c), B2)
        C == hstack(C1, C2)
        D == hstack(D1, D2)
        m == mk(h, "dlti", A, B, C, D, s1.dt)
    IN  IF s1.cls # s2.cls THEN R(h, NoObj, "NameError")
        ELSE IF s1.dt # s2.dt THEN R(h, NoObj, "NameError")
        ELSE IF outputs(s2) # outputs(s1) THEN R(h, NoObj, "NameError")
        ELSE IF s1.cls # "ss" THEN R(h, NoObj, "AttributeError")
        ELSE R(m.h, m.o, "")

-----------------------------------------------------------------------------
(* join *)

\* scalg.block_diag(*[A_i])
RECURSIVE block_diag(_, _, _)
block_diag(h, list, n) ==
    IF n = 1 THEN val(h, list[1].A)
    ELSE LET X == block_diag(h, list, n - 1)
             Y == val(h, list[n].A)
         IN  block2(X, zeros(X.r, Y.c), zeros(Y.r, X.c), Y)

\* mutant: every subsystem keeps inputs of its own, the B_i on the diagonal
RECURSIVE join_B_independent(_, _, _)
join_B_independent(h, list, n) ==
    IF n = 1 THEN val(h, list[1].B)
    ELSE LET X == join_B_independent(h, list, n - 1)
             Y == val(h, list[n].B)
         IN  block2(X, zeros(X.r, Y.c), zeros(Y.r, X.c), Y)

\* np.block([[B_i] for ss in SS_list]): the B_i on top of each other
RECURSIVE join_B(_, _, _)
join_B(h, list, n) ==
    IF n = 1 THEN val(h, list[1].B)
    ELSE vstack(join_B(h, list, n - 1), val(h, list[n].B))

\* np.block([ww * C_i ...]): the weighted C_i side by side
RECURSIVE join_C(_, _, _, _)
join_C(h, list, wv, n) ==
    IF n = 1 THEN Scal(wv[1], val(h, list[1].C))
    ELSE hstack(join_C(h, list, wv, n - 1), Scal(wv[n], val(h, list[n].C)))

\* np.block accepts the B_i (equal column counts) and the C_i (equal row counts)
join_shapes_ok(list) ==
    \A i \in 1..Len(list) :
        /\ list[i].B.nd = 2 /\ list[i].C.nd = 2
        /\ list[i].B.c = list[1].B.c /\ list[i].C.r = list[1].C.r

\* mutant: D accumulates into the first model's own D
join_D_alias(h, o) == [h |-> h, ref |-> o.D]

\* D = np.zeros_like(SS_list[0].D)
join_D_zeros(h, o) == alloc(h, zeros(o.D.r, o.D.c))

\* D += wv[ii] * SS_list[ii].D through the reference d, for ii = k..N
RECURSIVE join_D_add(_, _, _, _, _)
join_D_add(h, d, list, wv, k) ==
    IF k > Len(list) THEN h
    ELSE LET X == val(h, list[k].D)
             old == h[d.buf]
             h1 == [h EXCEPT ![d.buf].e =
                      [i \in 1..old.r |-> [j \in 1..old.c |->
                          IF i <= d.r /\ j <= d.c
                          THEN old.e[i][j] + wv[k] * X.e[i][j]
                          ELSE old.e[i][j]]]]
         IN  join_D_add(h1, d, list, wv, k + 1)

\* mutant: the weights are ignored
weights_ignored(wv, N) == [k \in 1..N |-> 1]

\* weights: <<>> stands for wv=None
weights(wv, N) == IF wv = <<>> THEN [k \in 1..N |-> 1] ELSE wv

join(h, list, wv) ==
    LET N == Len(list)
        w == weights(wv, N)
        d == join_D_zeros(h, list[1])
        h1 == join_D_add(d.h, d.ref, list, w, 1)
        a == alloc(h1, block_diag(h, list, N))
        b == alloc(a.h, join_B(h, list, N))
        c == alloc(b.h, join_C(h, list, w, N))
        exc == ss_init_exc(a.ref, b.ref, c.ref, d.ref)
    IN  IF wv # <<>> /\ Len(wv) # N THEN R(h, NoObj, "AssertionError")
        ELSE IF ~join_shapes_ok(list) THEN R(h, NoObj, "ValueError")
        ELSE IF exc # "" THEN R(h1, NoObj, exc)
        ELSE R(c.h, ss_init(a.ref, b.ref, c.ref, d.ref, list[1].dt), "")

-----------------------------------------------------------------------------
(* join2, sum_ss: operands are gains (np.ndarray) or scipy discrete models *)

\* scsig.StateSpace(A, B, C, D, dt=dt) on arrays given by value
new_dlti(h, A, B, C, D, dt) ==
    LET m == mk(h, "dlti", A, B, C, D, dt)
    IN  R(m.h, m.o, "")

join2(h, x, y) ==
    IF IsGain(x) /\ IsGain(y) THEN
        LET X == val(h, x.A)
            Y == val(h, y.A)
            g == alloc(h, block2(X, zeros(X.r, Y.c), zeros(Y.r, X.c), Y))
        IN  R(g.h, gain(g.ref), "")
    ELSE IF IsGain(x) /\ IsDlti(y) THEN
        LET X == val(h, x.A)
            Nx02 == y.A.r
        IN  new_dlti(h, val(h, y.A),
                     hstack(zeros(Nx02, X.c), val(h, y.B)),
                     vstack(zeros(X.r, Nx02), val(h, y.C)),
                     block2(X, zeros(X.r, inputs(y)), zeros(outputs(y), X.c), val(h, y.D)),
                     y.dt)
    ELSE IF IsDlti(x) /\ IsGain(y) THEN
        LET Y == val(h, y.A)
            Nx01 == x.A.r
        IN  new_dlti(h, val(h, x.A),
                     hstack(val(h, x.B), zeros(Nx01, Y.c)),
                     vstack(val(h, x.C), zeros(Y.r, Nx01)),
                     block2(val(h, x.D), zeros(outputs(x), Y.c), zeros(Y.r, inputs(x)), Y),
                     x.dt)
    ELSE IF IsDlti(x) /\ IsDlti(y) THEN
        IF x.dt # y.dt THEN R(h, NoObj, "AssertionError")
        ELSE new_dlti(h,
                 block2(val(h, x.A), zeros(x.A.r, y.A.r), zeros(y.A.r, x.A.r), val(h, y.A)),
                 block2(val(h, x.B), zeros(x.A.r, inputs(y)), zeros(y.A.r, inputs(x)), val(h, y.B)),
                 block2(val(h, x.C), zeros(outputs(x), y.A.r), zeros(outputs(y), x.A.r), val(h, y.C)),
                 block2(val(h, x.D), zeros(outputs(x), inputs(y)), zeros(outputs(y), inputs(x)), val(h, y.D)),
                 x.dt)
    ELSE R(h, NoObj, "NameError")

\* numpy's X + Y is defined when each dimension agrees or is 1
BcOk(X, Y) ==
    /\ X.nd = 2 /\ Y.nd = 2
    /\ X.r = Y.r \/ X.r = 1 \/ Y.r = 1
    /\ X.c = Y.c \/ X.c = 1 \/ Y.c = 1

Max(a, b) == IF a > b THEN a ELSE b

\* X + Y with numpy broadcasting
BcAdd(X, Y) ==
    Arr(2, Max(X.r, Y.r), Max(X.c, Y.c),
        LAMBDA i, j: X.e[IF X.r = 1 THEN 1 ELSE i][IF X.c = 1 THEN 1 ELSE j]
                     + Y.e[IF Y.r = 1 THEN 1 ELSE i][IF Y.c = 1 THEN 1 ELSE j])

\* scsig.StateSpace rejects a D that does not match B and C
dlti_D_ok(B, C, D) == D.r = C.r /\ D.c = B.c

sum_ss(h, x, y) ==
    IF IsGain(x) /\ IsGain(y) THEN
        IF ~BcOk(val(h, x.A), val(h, y.A)) THEN R(h, NoObj, "ValueError")
        ELSE LET g == alloc(h, BcAdd(val(h, x.A), val(h, y.A)))
             IN  R(g.h, gain(g.ref), "")
    ELSE IF IsGain(x) /\ IsDlti(y) THEN
        IF ~BcOk(val(h, y.D), val(h, x.A)) THEN R(h, NoObj, "ValueError")
        ELSE LET D == BcAdd(val(h, y.D), val(h, x.A))
             IN  IF ~dlti_D_ok(y.B, y.C, D) THEN R(h, NoObj, "ValueError")
                 ELSE new_dlti(h, val(h, y.A), val(h, y.B), val(h, y.C), D, y.dt)
    ELSE IF IsDlti(x) /\ IsGain(y) THEN
        \* StateSpace(A, B, C, D, dt=SS2.dt) with SS2 the gain: an np.ndarray
        \* has no attribute dt
        IF ~BcOk(val(h, x.D), val(h, y.A)) THEN R(h, NoObj, "ValueError")
        ELSE R(h, NoObj, "AttributeError")
    ELSE IF IsDlti(x) /\ IsDlti(y) THEN
        IF ~dt_ratio_close(x.dt, y.dt) THEN R(h, NoObj, "AssertionError")
        ELSE IF x.B.c # y.B.c \/ x.C.r # y.C.r THEN R(h, NoObj, "ValueError")
        ELSE new_dlti(h,
                 block2(val(h, x.A), zeros(x.A.r, y.A.r), zeros(y.A.r, x.A.r), val(h, y.A)),
                 vstack(val(h, x.B), val(h, y.B)),
                 hstack(val(h, x.C), val(h, y.C)),
                 Add(val(h, x.D), val(h, y.D)),
                 x.dt)
    ELSE R(h, NoObj, "NameError")

-----------------------------------------------------------------------------
(* freqresp.  C (zI - A)^-1 B + D is a rational function of z; its value at *)
(* every frequency is fixed by, and fixes, the coefficients of its          *)
(* expansion D + C B / z + C A B / z^2 + ..., which is what is kept here.   *)

RECURSIVE matpow(_, _)
matpow(A, k) == IF k = 0 THEN eye(A.r) ELSE dot(A, matpow(A, k - 1))

\* coefficient k of the response of (A, B, C, D)
coeff(h, o, k) ==
    IF k = 0 THEN val(h, o.D)
    ELSE dot(val(h, o.C), dot(matpow(val(h, o.A), k - 1), val(h, o.B)))

\* freqresp(SS, wv, dlti): raises unless SS is an instance of class ss
freqresp(h, o) ==
    IF o.cls # "ss" THEN [exc |-> "AssertionError", Y |-> <<>>, dt |-> NoDt]
    ELSE [exc |-> "", Y |-> [k \in 1..(MarkovLen + 1) |-> coeff(h, o, k - 1)],
          dt |-> o.dt]

-----------------------------------------------------------------------------
(* Life of one model: construction, attribute reads, in-place methods *)

Init ==
    /\ heap = <<>>
    /\ objs = <<>>
    /\ ret = Out("none", 0, "", 0)
    /\ steps = 0

\* shapes a caller may hand to the constructor: 2-D arrays and 1-D vectors
Shapes2D == {Gen(2, r, c, 0) : r \in ModelDims, c \in ModelDims}
Shapes1D == {Gen(1, r, 1, 0) : r \in ModelDims}

shape(X) == [nd |-> X.nd, r |-> X.r, c |-> X.c]

\* ss(A, B, C, D, dt) on four arrays the caller allocated
Construct ==
    /\ ret.op = "none"
    /\ \E A0 \in Shapes2D, B0 \in Shapes2D \cup Shapes1D,
          C0 \in Shapes2D \cup Shapes1D, D0 \in Shapes2D \cup Shapes1D,
          dt \in {Dt(1, 0)} :
          LET a == alloc(heap, Gen(A0.nd, A0.r, A0.c, 1))
              b == alloc(a.h, Gen(B0.nd, B0.r, B0.c, 2))
              c == alloc(b.h, Gen(C0.nd, C0.r, C0.c, 0))
              d == alloc(c.h, Gen(D0.nd, D0.r, D0.c, 1))
              exc == ss_init_exc(a.ref, b.ref, c.ref, d.ref)
              args == [A |-> shape(A0), B |-> shape(B0), C |-> shape(C0), D |-> shape(D0)]
          IN  IF exc = ""
              THEN /\ heap' = d.h
                   /\ objs' = <<ss_init(a.ref, b.ref, c.ref, d.ref, dt)>>
                   /\ ret' = Out("ss", 1, "", args)
              ELSE /\ heap' = heap
                   /\ objs' = objs
                   /\ ret' = Out("ss", 0, exc, args)
    /\ steps' = steps

IsSS(k) == k \in 1..Len(objs) /\ objs[k].cls = "ss"

\* reading the attribute inputs
ReadInputs ==
    \E k \in 1..Len(objs) :
        /\ IsSS(k)
        /\ objs' = [objs EXCEPT ![k] = readIn(@)]
        /\ ret' = Out("inputs", k, "", inputs(objs[k]))
        /\ UNCHANGED <<heap, steps>>

\* reading the attribute outputs
ReadOutputs ==
    \E k \in 1..Len(objs) :
        /\ IsSS(k)
        /\ objs' = [objs EXCEPT ![k] = readOut(@)]
        /\ ret' = Out("outputs", k, "", outputs(objs[k]))
        /\ UNCHANGED <<heap, steps>>

\* reading the attribute states
ReadStates ==
    \E k \in 1..Len(objs) :
        /\ IsSS(k)
        /\ objs' = [objs EXCEPT ![k] = readSt(@)]
        /\ ret' = Out("states", k, "", states(objs[k]))
        /\ UNCHANGED <<heap, steps>>

\* the effect of a method call on model k
Method(k, op, res, arg) ==
    /\ heap' = res.h
    /\ objs' = [objs EXCEPT ![k] = res.o]
    /\ ret' = Out(op, k, res.exc, arg)
    /\ steps' = steps + 1

\* model.addGain(K, where) with a gain the caller allocated
AddGain ==
    \E k \in 1..Len(objs) :
        /\ IsSS(k) /\ steps < MaxSteps
        /\ \E kc \in ModelDims, extra \in {0, 1}, where \in {"in", "out", "parallel"} :
              /\ (where = "parallel" \/ extra = 1) => kc = 1
              /\ LET o == objs[k]
                     K == IF where = "out"
                          THEN Gen(2, kc, outputs(o) + extra, 2)
                          ELSE Gen(2, inputs(o) + extra, kc, 2)
                     g == alloc(heap, K)
                 IN  Method(k, "addGain", ss_addGain(g.h, o, g.ref, where),
                            [K |-> g.ref, where |-> where])

\* scaling arguments tried on a model with the given channel counts
ScaleArgs(Nin, Nout, Nst) ==
    { <<Scalar(2), Scalar(1), Scalar(2)>>,
      <<Scalar(1), Scalar(2), Scalar(1)>>,
      <<List([j \in 1..Nin |-> j + 1]), Scalar(-1),
        List([j \in 1..Nst |-> IF j = 1 THEN 1 ELSE -1])>>,
      <<Scalar(1), List([j \in 1..(Nout + 1) |-> 1]), Scalar(1)>> }

\* model.scale(input_scal, output_scal, state_scal)
Scale ==
    \E k \in 1..Len(objs) :
        /\ IsSS(k) /\ steps < MaxSteps
        /\ \E sc \in ScaleArgs(inputs(objs[k]), outputs(objs[k]), objs[k].A.r) :
              LET res == ss_scale(heap, objs[k], sc[1], sc[2], sc[3])
              IN  /\ res.exact
                  /\ Method(k, "scale", res, sc)

\* model.project(WT, V) with transformations the caller allocated
Project ==
    \E k \in 1..Len(objs) :
        /\ IsSS(k) /\ steps < MaxSteps
        /\ \E kk \in ModelDims, extra \in {0, 1}, id \in BOOLEAN :
              /\ extra = 1 => kk = 1
              /\ id => (kk = objs[k].A.r /\ extra = 0)
              /\ LET o == objs[k]
                     w == alloc(heap, IF id THEN eye(kk) ELSE Gen(2, kk, o.A.r, 1))
                     v == alloc(w.h, IF id THEN eye(kk) ELSE Gen(2, o.A.c + extra, kk, 0))
                 IN  Method(k, "project", ss_project(v.h, o, w.ref, v.ref),
                            [WT |-> w.ref, V |-> v.ref])

\* model.truncate(N)
Truncate ==
    \E k \in 1..Len(objs) :
        /\ IsSS(k) /\ steps < MaxSteps
        /\ \E N \in 0..(objs[k].A.r + 1) :
              Method(k, "truncate", ss_truncate(heap, objs[k], N), N)

\* model.remove_inout_channels(retain_channels, where)
RemoveInout ==
    \E k \in 1..Len(objs) :
        /\ IsSS(k) /\ steps < MaxSteps
        /\ \E retain \in {<<0>>, <<1, 0>>, <<2>>}, where \in {"in", "out", "both"} :
              /\ where = "both" => retain = <<0>>
              /\ retain = <<2>> => where = "in"
              /\ Method(k, "remove_inout_channels",
                        remove_inout_channels(heap, objs[k], retain, where),
                        [retain |-> retain, where |-> where])

Next ==
    \/ Construct
    \/ ReadInputs
    \/ ReadOutputs
    \/ ReadStates
    \/ AddGain
    \/ Scale
    \/ Project
    \/ Truncate
    \/ RemoveInout

Spec == Init /\ [][Next]_vars

-----------------------------------------------------------------------------
(* Claims on the life of one model *)

NRows(X) == X.r
NCols(X) == IF X.nd = 1 THEN 1 ELSE X.c

\* C1: whatever calls were made before and whatever was read before, a read
\* of inputs, outputs or states returns the current column count of B (1 for
\* a vector), the current row count of C, the current dimension of A.
C1_DerivedShapes ==
    (ret.exc = "" /\ ret.op \in {"inputs", "outputs", "states"}) =>
        LET o == objs[ret.obj]
        IN  /\ ret.op = "inputs" => ret.val = NCols(val(heap, o.B))
            /\ ret.op = "outputs" => ret.val = NRows(val(heap, o.C))
            /\ ret.op = "states" => ret.val = NRows(val(heap, o.A))

\* C1 witness: states was read after calls that changed the input count,
\* while the stored input count is still the one from before those calls
C1_Witness ==
    /\ ret.op = "states" /\ steps = MaxSteps
    /\ objs[ret.obj]._inputs # NCols(val(heap, objs[ret.obj].B))
    /\ objs[ret.obj]._states = NRows(val(heap, objs[ret.obj].A))

\* the shape invariants of the data model, on the shapes handed to ss()
ShapesValid(a) ==
    /\ a.A.nd = 2 /\ a.A.r = a.A.c
    /\ NRows(a.B) = a.A.r
    /\ a.C.nd = 2 /\ NCols(a.C) = a.A.r
    /\ NRows(a.D) = NRows(a.C)
    /\ NCols(a.D) = NCols(a.B)

-----------------------------------------------------------------------------
(* Interconnections: the caller holds two models S1, S2, a third model S3   *)
(* shaped like S1, and two gains K12, K21, and makes one call.              *)

\* classes and sampling intervals of S1 and S2
AlgVariants ==
    { <<"ss", "ss", Dt(1, 0), Dt(1, 0)>>,
      <<"ss", "ss", Dt(1, 0), Dt(1, 1)>>,
      <<"ss", "ss", Dt(1, 0), Dt(2, 0)>>,
      <<"dlti", "dlti", Dt(1, 0), Dt(1, 0)>>,
      <<"dlti", "dlti", Dt(1, 0), Dt(1, 1)>>,
      <<"dlti", "dlti", Dt(1, 0), Dt(2, 0)>>,
      <<"ss", "dlti", Dt(1, 0), Dt(1, 0)>> }

\* a valid model of class cls with n states, m inputs, p outputs
model(h, cls, n, m, p, dt, s) ==
    mk(h, cls, Gen(2, n, n, s), Gen(2, n, m, s + 1), Gen(2, p, n, s + 2),
       Gen(2, p, m, s), dt)

InitAlg ==
    \E n1 \in ModelDims, m1 \in ModelDims, p1 \in ModelDims,
       n2 \in ModelDims, m2 \in ModelDims, p2 \in ModelDims,
       v \in AlgVariants, zero \in BOOLEAN :
        LET s1 == model(<<>>, v[1], n1, m1, p1, v[3], 0)
            s2 == model(s1.h, v[2], n2, m2, p2, v[4], 1)
            s3 == model(s2.h, v[1], n1, m1, p1, v[3], 2)
            k12 == alloc(s3.h, IF zero THEN zeros(m1, p2) ELSE Gen(2, m1, p2, 1))
            k21 == alloc(k12.h, IF zero THEN zeros(m2, p1) ELSE Gen(2, m2, p1, 2))
        IN  /\ heap = k21.h
            /\ objs = <<s1.o, s2.o, s3.o, gain(k12.ref), gain(k21.ref)>>
            /\ ret = Out("none", 0, "", 0)
            /\ steps = 0

\* the effect of a call that returns a new object (or raises)
Call(op, res, arg) ==
    /\ steps = 0
    /\ heap' = res.h
    /\ objs' = IF res.exc = "" THEN Append(objs, res.out) ELSE objs
    /\ ret' = Out(op, IF res.exc = "" THEN Len(objs) + 1 ELSE 0, res.exc, arg)
    /\ steps' = 1

Couple ==
    \E sparse \in BOOLEAN :
        /\ couple_exact(heap, objs[1], objs[2], objs[4], objs[5])
        /\ Call("couple", couple(heap, objs[1], objs[2], objs[4], objs[5], sparse),
                [out_sparse |-> sparse])

Series == Call("series", series(heap, objs[1], objs[2]), <<1, 2>>)

Parallel == Call("parallel", parallel(heap, objs[1], objs[2]), <<1, 2>>)

pick(idx) == [i \in 1..Len(idx) |-> objs[idx[i]]]

Join ==
    \E idx \in {<<1, 2>>, <<1, 3>>, <<1, 3, 2>>}, wv \in {<<>>, <<2, -1>>, <<2, -1, 3>>} :
        Call("join", join(heap, pick(idx), wv), [list |-> idx, wv |-> wv])

\* operand pairs of join2 and sum_ss: gains and models in the four orders
Pairs == {<<4, 5>>, <<4, 2>>, <<1, 5>>, <<1, 2>>}

Join2 ==
    \E pr \in Pairs :
        Call("join2", join2(heap, objs[pr[1]], objs[pr[2]]), pr)

SumSS ==
    \E pr \in Pairs :
        Call("sum_ss", sum_ss(heap, objs[pr[1]], objs[pr[2]]), pr)

\* scale_SS(S1, ..., byref=False), scale_SS(S1, ..., byref=True) and, on a
\* model of class ss, S1.scale(...)
ScaleSS ==
    \E form \in {"byval", "byref", "method"},
       sc \in ScaleArgs(inputs(objs[1]), outputs(objs[1]), objs[1].A.r) :
        LET res == IF form = "method"
                   THEN ss_scale(heap, objs[1], sc[1], sc[2], sc[3])
                   ELSE scale_SS(heap, objs[1], sc[1], sc[2], sc[3], form = "byref")
            new == res.exc = "" /\ form = "byval"
        IN  /\ steps = 0
            /\ form = "method" => objs[1].cls = "ss"
            /\ res.exact
            /\ heap' = res.h
            /\ objs' = IF new THEN Append([objs EXCEPT ![1] = res.o], res.out)
                       ELSE [objs EXCEPT ![1] = res.o]
            /\ ret' = Out("scale_SS",
                          IF new THEN Len(objs) + 1
                          ELSE IF res.exc = "" /\ form = "byref" THEN 1 ELSE 0,
                          res.exc, [form |-> form, sc |-> sc])
            /\ steps' = 1

NextAlg ==
    \/ ScaleSS
    \/ Couple
    \/ Series
    \/ Parallel
    \/ Join
    \/ Join2
    \/ SumSS

SpecAlg == InitAlg /\ [][NextAlg]_vars

-----------------------------------------------------------------------------
(* Claims on the interconnections *)

S1 == objs[1]
S2 == objs[2]
S3 == objs[3]
K12 == objs[4]
K21 == objs[5]

\* the object the last call returned
Result == objs[ret.obj]

\* the four matrices of model o in heap h
Mats(h, o) == <<val(h, o.A), val(h, o.B), val(h, o.C), val(h, o.D)>>

\* X and Y on the diagonal, zeros elsewhere
BlockDiag(X, Y) ==
    Arr(2, X.r + Y.r, X.c + Y.c,
        LAMBDA i, j: IF i <= X.r /\ j <= X.c THEN X.e[i][j]
                     ELSE IF i > X.r /\ j > X.c THEN Y.e[i - X.r][j - X.c]
                     ELSE 0)

\* C3: couple, series, parallel and join leave every operand (models and
\* gains: their matrices and dt) exactly as it was, and a model they return
\* is a new object none of whose matrices is an array of an operand.
C3_OperandsUntouched ==
    [][ret'.op \in {"couple", "series", "parallel", "join"} =>
          /\ SubSeq(heap', 1, Len(heap)) = heap
          /\ SubSeq(objs', 1, Len(objs)) = objs
          /\ ret'.exc = "" =>
                /\ ret'.obj = Len(objs) + 1
                /\ Len(objs') = Len(objs) + 1
                /\ \A f \in {"A", "B", "C", "D"} :
                      objs'[ret'.obj][f].buf > Len(heap)]_vars

\* a weighted join of three models has returned
C3_Witness ==
    /\ ret.op = "join" /\ ret.exc = ""
    /\ ret.val.list = <<1, 3, 2>> /\ ret.val.wv = <<2, -1, 3>>

ZeroGains ==
    /\ val(heap, K12.A) = zeros(K12.A.r, K12.A.c)
    /\ val(heap, K21.A) = zeros(K21.A.r, K21.A.c)

\* the scipy discrete-time model holding the matrices and dt of o
as_dlti(o) == [o EXCEPT !.cls = "dlti"]

\* couple was called on two models of class ss with equal dt and zero gains
C4_Case ==
    /\ ret.op = "couple" /\ ~ret.val.out_sparse
    /\ S1.cls = "ss" /\ S2.cls = "ss" /\ S1.dt = S2.dt
    /\ ZeroGains

\* C4 as stated: with zero gains couple returns the block-diagonal system,
\* the same system as join2(ss1, ss2) returns.
C4_CoupleIsJoin2 ==
    C4_Case =>
        LET j == join2(heap, S1, S2)
        IN  /\ ret.exc = ""
            /\ j.exc = ""
            /\ Mats(j.h, j.out) = Mats(heap, Result)

\* C4, amended: with zero gains couple returns the block-diagonal system (no
\* interaction), whose matrices and response are those join2 builds from the
\* scipy discrete-time models holding the operands' matrices; join2 itself
\* raises NameError on operands of class ss.
C4_CoupleIsBlockDiagonal ==
    C4_Case =>
        LET j == join2(heap, as_dlti(S1), as_dlti(S2))
        IN  /\ ret.exc = ""
            /\ Mats(heap, Result) =
                 <<BlockDiag(val(heap, S1.A), val(heap, S2.A)),
                   BlockDiag(val(heap, S1.B), val(heap, S2.B)),
                   BlockDiag(val(heap, S1.C), val(heap, S2.C)),
                   BlockDiag(val(heap, S1.D), val(heap, S2.D))>>
            /\ Result.dt = S1.dt
            /\ j.exc = ""
            /\ Mats(j.h, j.out) = Mats(heap, Result)
            /\ \A k \in 0..MarkovLen : coeff(j.h, j.out, k) = coeff(heap, Result, k)
            /\ join2(heap, S1, S2).exc = "NameError"

\* zero-gain coupling of two models with several states and channels
C4_Witness ==
    /\ C4_Case /\ ret.exc = ""
    /\ states(S1) = 2 /\ states(S2) = 2 /\ inputs(S1) = 2 /\ outputs(S2) = 2

\* sum over i = 0..n of (coefficient i of s2) . (coefficient k - i of s1)
RECURSIVE Conv(_, _, _, _, _)
Conv(h, s1, s2, k, n) ==
    IF n = 0 THEN dot(coeff(h, s2, 0), coeff(h, s1, k))
    ELSE Add(Conv(h, s1, s2, k, n - 1), dot(coeff(h, s2, n), coeff(h, s1, k - n)))

\* series was called on two models of class ss with identical dt, the
\* second taking as many inputs as the first has outputs
C5_Case ==
    /\ ret.op = "series"
    /\ S1.cls = "ss" /\ S2.cls = "ss" /\ S1.dt = S2.dt
    /\ inputs(S2) = outputs(S1)

\* C5: series(ss1, ss2) returns the cascade: state [x1; x2], the inputs of
\* ss1, the outputs of ss2, A = [A1 0; B2 C1, A2], B = [B1; B2 D1],
\* C = [D2 C1, C2], D = D2 D1, and its response is the product
\* freqresp(ss2) . freqresp(ss1).
C5_SeriesIsCascade ==
    C5_Case =>
        /\ ret.exc = ""
        /\ states(Result) = states(S1) + states(S2)
        /\ inputs(Result) = inputs(S1)
        /\ outputs(Result) = outputs(S2)
        /\ Result.dt = S1.dt
        /\ LET A1 == val(heap, S1.A)
               B1 == val(heap, S1.B)
               C1 == val(heap, S1.C)
               D1 == val(heap, S1.D)
               A2 == val(heap, S2.A)
               B2 == val(heap, S2.B)
               C2 == val(heap, S2.C)
               D2 == val(heap, S2.D)
           IN  Mats(heap, Result) =
                 <<vstack(hstack(A1, zeros(A1.r, A2.c)), hstack(dot(B2, C1), A2)),
                   vstack(B1, dot(B2, D1)),
                   hstack(dot(D2, C1), C2),
                   dot(D2, D1)>>
        /\ \A k \in 0..MarkovLen :
              coeff(heap, Result, k) = Conv(heap, S1, S2, k, k)

\* a cascade of two models with two states each and a non-zero direct term
C5_Witness ==
    /\ C5_Case /\ ret.exc = ""
    /\ states(S1) = 2 /\ states(S2) = 2
    /\ val(heap, Result.D) # zeros(Result.D.r, Result.D.c)

\* parallel was called on two models of class ss with equal dt and equal
\* output counts
C6_Case ==
    /\ ret.op = "parallel"
    /\ S1.cls = "ss" /\ S2.cls = "ss" /\ S1.dt = S2.dt
    /\ outputs(S1) = outputs(S2)

\* C6 as stated: parallel returns a model that freqresp accepts, and whose
\* response is freqresp(ss1) + freqresp(ss2).
C6_ParallelIsSum ==
    C6_Case =>
        /\ ret.exc = ""
        /\ LET f == freqresp(heap, Result)
           IN  /\ f.exc = ""
               /\ inputs(S1) = inputs(S2) =>
                    \A k \in 0..MarkovLen :
                        f.Y[k + 1] = Add(coeff(heap, S1, k), coeff(heap, S2, k))

\* parallel returned a composite of two models with as many inputs each, and
\* freqresp refuses it
C6_Witness ==
    /\ C6_Case /\ ret.exc = "" /\ inputs(S1) = inputs(S2)
    /\ Result.cls = "dlti"
    /\ freqresp(heap, Result).exc = "AssertionError"

\* the models join was called on
Joined == pick(ret.val.list)

\* the weights join used
JoinW == IF ret.val.wv = <<>> THEN [i \in 1..Len(Joined) |-> 1] ELSE ret.val.wv

\* join was called on models with common input and output counts, with no
\* weights or one weight per model
JoinShapes ==
    /\ ret.op = "join"
    /\ ret.val.wv = <<>> \/ Len(ret.val.wv) = Len(Joined)
    /\ \A i \in 1..Len(Joined) :
          /\ inputs(Joined[i]) = inputs(Joined[1])
          /\ outputs(Joined[i]) = outputs(Joined[1])

\* sum over i = 1..n of w[i] times coefficient k of list[i]
RECURSIVE WSum(_, _, _, _, _)
WSum(h, list, w, k, n) ==
    IF n = 1 THEN Scal(w[1], coeff(h, list[1], k))
    ELSE Add(WSum(h, list, w, k, n - 1), Scal(w[n], coeff(h, list[n], k)))

\* number of states of the first n models of list
RECURSIVE StatesUpTo(_, _)
StatesUpTo(list, n) == IF n = 0 THEN 0 ELSE StatesUpTo(list, n - 1) + states(list[n])

\* number of inputs of the first n models of list
RECURSIVE InputsUpTo(_, _)
InputsUpTo(list, n) == IF n = 0 THEN 0 ELSE InputsUpTo(list, n - 1) + inputs(list[n])

\* columns off+1 .. off+c of X
Cols(X, off, c) == Arr(2, X.r, c, LAMBDA i, j: X.e[i][off + j])

\* rows off+1 .. off+r of X
Rows(X, off, r) == Arr(2, r, X.c, LAMBDA i, j: X.e[off + i][j])

\* join was called on models of class ss with the same dt and common input
\* and output counts
C7_Case ==
    /\ JoinShapes
    /\ \A i \in 1..Len(Joined) : Joined[i].cls = "ss" /\ Joined[i].dt = Joined[1].dt

\* C7: the response of join(list, w) is the weighted sum of the models'
\* responses (weights 1 when none are given), its D is the weighted sum of
\* the D_i and its C is the w_i C_i side by side.
C7_JoinIsWeightedSum ==
    C7_Case =>
        /\ ret.exc = ""
        /\ \A k \in 0..MarkovLen :
              coeff(heap, Result, k) = WSum(heap, Joined, JoinW, k, Len(Joined))
        /\ val(heap, Result.D) = WSum(heap, Joined, JoinW, 0, Len(Joined))
        /\ Result.C.c = StatesUpTo(Joined, Len(Joined))
        /\ \A i \in 1..Len(Joined) :
              Cols(val(heap, Result.C), StatesUpTo(Joined, i - 1), states(Joined[i]))
                = Scal(JoinW[i], val(heap, Joined[i].C))

\* three models of different sizes joined with three different weights
C7_Witness ==
    /\ C7_Case /\ ret.exc = ""
    /\ ret.val.list = <<1, 3, 2>> /\ ret.val.wv = <<2, -1, 3>>
    /\ states(S1) # states(S2)
    /\ val(heap, Result.D) # zeros(Result.D.r, Result.D.c)

\* C8 as stated: the joined model's inputs are the subsystems' inputs
\* concatenated: as many inputs as the subsystems have together, and as many
\* states as they have together.
C8_JoinInputsConcatenated ==
    (JoinShapes /\ ret.exc = "") =>
        /\ inputs(Result) = InputsUpTo(Joined, Len(Joined))
        /\ states(Result) = StatesUpTo(Joined, Len(Joined))

\* C8, amended: the joined model's A is block-diagonal over the subsystems
\* and its state count is the sum of theirs, but its B is the B_i on top of
\* each other: all subsystems are driven by one common input vector, and the
\* input count is the subsystems' common input count.
C8_JoinInputsShared ==
    JoinShapes =>
        /\ ret.exc = ""
        /\ states(Result) = StatesUpTo(Joined, Len(Joined))
        /\ inputs(Result) = inputs(Joined[1])
        /\ outputs(Result) = outputs(Joined[1])
        /\ \A i \in 1..Len(Joined) :
              LET off == StatesUpTo(Joined, i - 1)
                  n == states(Joined[i])
                  band == Rows(val(heap, Result.A), off, n)
              IN  /\ Rows(val(heap, Result.B), off, n) = val(heap, Joined[i].B)
                  /\ Cols(band, off, n) = val(heap, Joined[i].A)
                  /\ \A r \in 1..n, c \in 1..Result.A.c :
                        (c <= off \/ c > off + n) => band.e[r][c] = 0

\* two models with two inputs each have been joined
C8_Witness ==
    /\ JoinShapes /\ ret.exc = ""
    /\ Len(Joined) = 2 /\ inputs(Joined[1]) = 2 /\ inputs(Joined[2]) = 2
    /\ states(Joined[1]) = 1 /\ states(Joined[2]) = 2

\* the operands of the last join2 or sum_ss call
X1 == objs[ret.val[1]]
X2 == objs[ret.val[2]]

\* the matrix a gain adds to, or is added to: the gain itself or a model's D
Direct(o) == IF IsGain(o) THEN o.A ELSE o.D

\* join2 or sum_ss was called on gains and scipy discrete-time models, two
\* dynamic operands having the same dt, and the operands of sum_ss having
\* the same numbers of inputs and outputs
C9_Case ==
    /\ ret.op \in {"join2", "sum_ss"}
    /\ IsGain(X1) \/ IsDlti(X1)
    /\ IsGain(X2) \/ IsDlti(X2)
    /\ (IsDlti(X1) /\ IsDlti(X2)) => X1.dt = X2.dt
    /\ ret.op = "sum_ss" =>
          /\ Direct(X1).r = Direct(X2).r
          /\ Direct(X1).c = Direct(X2).c

\* C9 as stated: join2 and sum_ss succeed for gain-gain, gain-dynamic,
\* dynamic-gain and dynamic-dynamic operands; two gains give a gain, and any
\* other pair gives a dynamical model with the dynamic operand's dt.
C9_AllCombinations ==
    C9_Case =>
        /\ ret.exc = ""
        /\ (IsGain(X1) /\ IsGain(X2)) => IsGain(Result)
        /\ ~(IsGain(X1) /\ IsGain(X2)) =>
              /\ IsDlti(Result)
              /\ Result.dt = (IF IsDlti(X1) THEN X1.dt ELSE X2.dt)

\* sum_ss was called with a dynamic model first and a matching gain second,
\* and raised AttributeError
C9_Witness ==
    /\ C9_Case /\ ret.op = "sum_ss"
    /\ IsDlti(X1) /\ IsGain(X2)
    /\ ret.exc = "AttributeError"

\* the call was made on models S1 and S2 whose sampling intervals differ by
\* more than the tolerance
DtMismatch ==
    /\ S1.dt.base # S2.dt.base
    /\ \/ ret.op \in {"couple", "series", "parallel"}
       \/ ret.op = "join" /\ \E i \in 1..Len(ret.val.list) : ret.val.list[i] = 2
       \/ ret.op \in {"join2", "sum_ss"} /\ ret.val = <<1, 2>>
             /\ IsDlti(S1) /\ IsDlti(S2)

\* C10 as stated: couple, series, parallel, join and dynamic-dynamic join2
\* and sum_ss raise, and return no model, when the sampling intervals differ
\* by more than the tolerance.
C10_AllRaiseOnDtMismatch ==
    DtMismatch => ret.exc # "" /\ Len(objs) = 5

\* C10, amended: couple, series, parallel and dynamic-dynamic join2 and
\* sum_ss raise, and return no model, when the sampling intervals differ by
\* more than the tolerance; join compares no sampling intervals and returns
\* a model with the first operand's dt.
C10_RaiseOnDtMismatchButJoin ==
    DtMismatch =>
        /\ ret.op \in {"couple", "join2", "sum_ss"} =>
              ret.exc = "AssertionError" /\ Len(objs) = 5
        /\ ret.op \in {"series", "parallel"} =>
              ret.exc = "NameError" /\ Len(objs) = 5
        /\ (ret.op = "join" /\ JoinShapes) =>
              ret.exc = "" /\ Result.dt = Joined[1].dt

\* couple was called on two models of class ss with matching gains and
\* sampling intervals apart, and raised
C10_Witness ==
    /\ DtMismatch /\ ret.op = "couple" /\ ret.exc = "AssertionError"
    /\ S1.cls = "ss" /\ S2.cls = "ss"

-----------------------------------------------------------------------------
(* Claims on the in-place methods *)

\* the leading r rows and c columns of X
Lead(X, r, c) == Arr(X.nd, r, c, LAMBDA i, j: X.e[i][j])

\* the model the last method was called on, before and after the call (every
\* method call, and nothing else, advances steps)
Before == objs[ret'.obj]
After == objs'[ret'.obj]

\* C12: truncate(N) raises and leaves the model unchanged when N < 1 or
\* N > states; otherwise it replaces A by its leading N x N submatrix, B by
\* its first N rows, C by its first N columns, and leaves D and dt unchanged.
C12_Truncate ==
    [][ret'.op = "truncate" =>
          IF ret'.val < 1 \/ ret'.val > states(Before)
          THEN /\ ret'.exc # ""
               /\ Mats(heap', After) = Mats(heap, Before)
               /\ After.dt = Before.dt
          ELSE /\ ret'.exc = ""
               /\ val(heap', After.A) = Lead(val(heap, Before.A), ret'.val, ret'.val)
               /\ val(heap', After.B) = Lead(val(heap, Before.B), ret'.val, Before.B.c)
               /\ val(heap', After.C) = Lead(val(heap, Before.C), Before.C.r, ret'.val)
               /\ val(heap', After.D) = val(heap, Before.D)
               /\ After.dt = Before.dt]_steps

\* truncate with a valid N raised on a model whose B is a vector, after it
\* had replaced A: A and B no longer agree
C12_Witness ==
    /\ ret.op = "truncate" /\ ret.exc = "IndexError"
    /\ ret.val >= 1
    /\ objs[ret.obj].B.nd = 1
    /\ objs[ret.obj].A.r # objs[ret.obj].B.r

\* model o satisfies the shape invariants of the constructor
Consistent(o) ==
    /\ o.A.nd = 2 /\ o.A.r = o.A.c
    /\ o.B.r = o.A.r
    /\ o.C.nd = 2 /\ o.C.c = o.A.r
    /\ o.D.r = o.C.r
    /\ NCols(o.D) = NCols(o.B)

\* the transformations handed to the last project call
ArgWT == val(heap', ret'.val.WT)
ArgV == val(heap', ret'.val.V)

\* C13: on a model that satisfies the shape invariants, project(WT, V) with
\* WT of shape (k, n) and V of shape (n, k) replaces A by WT.A.V, B by WT.B
\* and C by C.V, leaves D and dt unchanged, and the model then has k states;
\* with identity transformations A, B and C keep their values.
C13_Project ==
    [][(/\ ret'.op = "project" /\ Consistent(Before)
        /\ ArgWT.c = states(Before) /\ ArgV.r = states(Before)
        /\ ArgWT.r = ArgV.c) =>
          /\ ret'.exc = ""
          /\ val(heap', After.A) = dot(ArgWT, dot(val(heap, Before.A), ArgV))
          /\ val(heap', After.B) = dot(ArgWT, val(heap, Before.B))
          /\ val(heap', After.C) = dot(val(heap, Before.C), ArgV)
          /\ val(heap', After.D) = val(heap, Before.D)
          /\ After.dt = Before.dt
          /\ states(After) = ArgV.c /\ After._states = ArgV.c
          /\ inputs(After) = inputs(Before) /\ outputs(After) = outputs(Before)
          /\ (ArgWT = eye(ArgWT.r) /\ ArgV = eye(ArgV.r)) =>
                /\ val(heap', After.A) = val(heap, Before.A)
                /\ val(heap', After.B) = val(heap, Before.B)
                /\ val(heap', After.C) = val(heap, Before.C)]_steps

\* a model with two states has been projected onto one state
C13_Witness ==
    /\ ret.op = "project" /\ ret.exc = ""
    /\ val(heap, ret.val.V).r = 2 /\ val(heap, ret.val.V).c = 1
    /\ states(objs[ret.obj]) = 1

\* factor number k of a scaling argument: its entry k, or the scalar itself
Factor(s, k) == IF s.isList THEN s.v[k] ELSE s.v[1]

\* Xn[i][j] = Xo[i][j] * num(i, j) / den(i, j), with non-zero denominators
Scaled(Xn, Xo, num(_, _), den(_, _)) ==
    /\ Xn.nd = Xo.nd /\ Xn.r = Xo.r /\ Xn.c = Xo.c
    /\ \A i \in 1..Xo.r, j \in 1..Xo.c :
          /\ den(i, j) # 0
          /\ Xn.e[i][j] * den(i, j) = Xo.e[i][j] * num(i, j)

ScaledModel(hn, n, ho, o, sc) ==
    /\ Scaled(val(hn, n.B), val(ho, o.B),
              LAMBDA i, j: Factor(sc[1], j), LAMBDA i, j: Factor(sc[3], i))
    /\ Scaled(val(hn, n.C), val(ho, o.C),
              LAMBDA i, j: Factor(sc[3], j), LAMBDA i, j: Factor(sc[2], i))
    /\ Scaled(val(hn, n.D), val(ho, o.D),
              LAMBDA i, j: Factor(sc[1], j), LAMBDA i, j: Factor(sc[2], i))
    /\ val(hn, n.A) = val(ho, o.A)

\* the four matrices of n are the very arrays of o
SameArrays(n, o) == n.A = o.A /\ n.B = o.B /\ n.C = o.C /\ n.D = o.D

\* scale_SS with byref=False returns a new, scaled model on arrays of its
\* own and leaves the operand's matrices as they were
ByValue ==
    /\ ret'.obj = Len(objs) + 1 /\ Len(objs') = Len(objs) + 1
    /\ SubSeq(heap', 1, Len(heap)) = heap
    /\ SameArrays(objs'[1], objs[1])
    /\ \A f \in {"A", "B", "C", "D"} : objs'[ret'.obj][f].buf > Len(heap)
    /\ ScaledModel(heap', objs'[ret'.obj], heap, objs[1], ret'.val.sc)

\* the operand's own arrays have been scaled, and no object was created
InPlace ==
    /\ Len(objs') = Len(objs) /\ Len(heap') = Len(heap)
    /\ SameArrays(objs'[1], objs[1])
    /\ ScaledModel(heap', objs'[1], heap, objs[1], ret'.val.sc)

\* C15 as stated: scale_SS(..., byref=False) returns a new model and leaves
\* the operand's matrices unchanged; scale_SS(..., byref=True) and ss.scale
\* modify the operand's own matrices and return that same model.
C15_ByRefReturnsOperand ==
    [][(ret'.op = "scale_SS" /\ ret'.exc = "") =>
          /\ ret'.val.form = "byval" => ByValue
          /\ ret'.val.form \in {"byref", "method"} => (InPlace /\ ret'.obj = 1)]_steps

\* C15, amended: scale_SS(..., byref=False) returns a new model and leaves
\* the operand's matrices unchanged; scale_SS(..., byref=True) modifies the
\* operand's own matrices and returns that same model; ss.scale modifies the
\* model's own matrices and returns nothing.
C15_ByRefByValue ==
    [][(ret'.op = "scale_SS" /\ ret'.exc = "") =>
          /\ ret'.val.form = "byval" => ByValue
          /\ ret'.val.form = "byref" => (InPlace /\ ret'.obj = 1)
          /\ ret'.val.form = "method" => (InPlace /\ ret'.obj = 0)]_steps

\* a copy of S1 was scaled by factors that change B, C and D, and returned
C15_Witness ==
    /\ ret.op = "scale_SS" /\ ret.exc = "" /\ ret.val.form = "byval"
    /\ ret.val.sc[2] = Scalar(-1)
    /\ Len(objs) = 6
    /\ Mats(heap, objs[6]) # Mats(heap, S1)
    /\ inputs(S1) = 2 /\ states(S1) = 2

\* columns retain[1], retain[2], ... (counted from 0) of X
SelCols(X, retain) == Arr(X.nd, X.r, Len(retain), LAMBDA i, j: X.e[i][retain[j] + 1])

\* rows retain[1], retain[2], ... (counted from 0) of X
SelRows(X, retain) == Arr(X.nd, Len(retain), X.c, LAMBDA i, j: X.e[retain[i] + 1][j])

\* the arguments of the last remove_inout_channels call
ArgRetain == ret'.val.retain
ArgWhere == ret'.val.where

\* what the call does on a model that satisfies the shape invariants: another
\* `where` raises with the model unchanged; valid indices on 2-D matrices
\* succeed; a call that succeeds selects the columns of B and D ('in') or the
\* rows of C and D ('out') that retain names, in the order of retain
RemoveInoutEffect ==
    /\ ArgWhere \notin {"in", "out"} =>
          /\ ret'.exc # ""
          /\ After = Before
          /\ Mats(heap', After) = Mats(heap, Before)
    /\ (/\ ArgWhere = "in" /\ Before.B.nd = 2 /\ Before.D.nd = 2
        /\ \A j \in 1..Len(ArgRetain) : ArgRetain[j] < inputs(Before)) => ret'.exc = ""
    /\ (/\ ArgWhere = "out"
        /\ \A j \in 1..Len(ArgRetain) : ArgRetain[j] < outputs(Before)) => ret'.exc = ""
    /\ (ArgWhere = "in" /\ ret'.exc = "") =>
          /\ inputs(After) = Len(ArgRetain)
          /\ val(heap', After.B) = SelCols(val(heap, Before.B), ArgRetain)
          /\ val(heap', After.D) = SelCols(val(heap, Before.D), ArgRetain)
          /\ val(heap', After.A) = val(heap, Before.A)
          /\ val(heap', After.C) = val(heap, Before.C)
          /\ After.dt = Before.dt
    /\ (ArgWhere = "out" /\ ret'.exc = "") =>
          /\ outputs(After) = Len(ArgRetain)
          /\ val(heap', After.C) = SelRows(val(heap, Before.C), ArgRetain)
          /\ val(heap', After.D) = SelRows(val(heap, Before.D), ArgRetain)
          /\ val(heap', After.A) = val(heap, Before.A)
          /\ val(heap', After.B) = val(heap, Before.B)
          /\ After.dt = Before.dt

-----------------------------------------------------------------------------
(* Conversion to continuous time, eigenvalues.  The models explored have an *)
(* upper triangular A, whose eigenvalues are its diagonal entries, and a    *)
(* sampling interval of 1, for which omega_0 = 2 and sqrt(2 omega_0) = 2.   *)

\* np.linalg.inv(X)
inv(X) == solve(X, eye(X.r))

\* mutant: the conversion accepts a model without sampling interval
dt_unchecked(dt) == TRUE

\* assert sys.dt is not None
dt_present(dt) == dt # NoDt

\* disc2cont(sys): the bilinear transformation, a new continuous-time model
disc2cont(h, o) ==
    LET A == val(h, o.A)
        B == val(h, o.B)
        C == val(h, o.C)
        D == val(h, o.D)
        I == eye(A.r)
        eye_a_inv == inv(Add(A, I))
        omega_0 == 2 \div o.dt.base
        a == Scal(omega_0, dot(Add(A, Scal(-1, I)), eye_a_inv))
        b == Scal(2, dot(eye_a_inv, B))
        c == Scal(2, dot(C, eye_a_inv))
        d == Add(D, Scal(-1, dot(C, dot(eye_a_inv, B))))
    IN  IF ~dt_present(o.dt) THEN R(h, NoObj, "AssertionError")
        ELSE IF o.D.nd # 2 THEN R(h, NoObj, "ValueError")
        ELSE IF ~SolveOk(Add(A, I)) THEN R(h, NoObj, "LinAlgError")
        ELSE new_ss(h, a, b, c, d, NoDt)

\* the conversion of o stays within the integers: dt = 1 and (A + I)^-1 is
\* an integer matrix
disc2cont_exact(h, o) ==
    LET L == Add(val(h, o.A), eye(o.A.r))
    IN  (o.dt # NoDt /\ o.D.nd = 2 /\ SolveOk(L)) =>
            (o.dt = Dt(1, 0) /\ SolveExact(L, eye(o.A.r)))

\* ss.disc2cont(): if self.dt: self = disc2cont(self).  The converted model
\* is bound to the local name only; nothing is returned
ss_disc2cont(h, o) ==
    IF o.dt = NoDt THEN Res(h, o, "")
    ELSE Res(h, o, disc2cont(h, o).exc)

\* the diagonal of A: the eigenvalues of an upper triangular A
diag(A) == [i \in 1..A.r |-> A.e[i][i]]

\* the key eigvals sorts by: np.abs(eigs) if dlti, eigs.real otherwise
sort_key(x, dlti) == IF dlti THEN Abs(x) ELSE x

\* eigvals(a, dlti): eigs[np.argsort(key)], every arrangement of the
\* eigenvalues that is in ascending order of the key (ties in any order)
eigvals(A, dlti) ==
    { [i \in 1..A.r |-> diag(A)[q[i]]] :
        q \in { f \in [1..A.r -> 1..A.r] :
                  /\ \A i, j \in 1..A.r : i # j => f[i] # f[j]
                  /\ \A i \in 1..(A.r - 1) :
                        sort_key(diag(A)[f[i]], dlti) <= sort_key(diag(A)[f[i + 1]], dlti) } }

\* ss.eigvals(): tests ss.dt, an attribute of the class, which has none
ss_eigvals_exc(o) == "AttributeError"

\* an upper triangular A with diagonal d
TriGen(d) ==
    Arr(2, Len(d), Len(d),
        LAMBDA i, j: IF i = j THEN d[i] ELSE IF i < j THEN 1 ELSE 0)

\* diagonals explored
Diags == UNION {[1..n -> {-2, -1, 0, 1}] : n \in ModelDims}

InitConv ==
    \E d \in Diags, m \in ModelDims, p \in ModelDims, dt \in {NoDt, Dt(1, 0), Dt(2, 0)} :
        LET s == mk(<<>>, "ss", TriGen(d), Gen(2, Len(d), m, 1), Gen(2, p, Len(d), 2),
                    Gen(2, p, m, 0), dt)
        IN  /\ heap = s.h
            /\ objs = <<s.o>>
            /\ ret = Out("none", 0, "", 0)
            /\ steps = 0

\* disc2cont(model)
Disc2Cont ==
    /\ disc2cont_exact(heap, objs[1])
    /\ Call("disc2cont", disc2cont(heap, objs[1]), 1)

\* model.disc2cont()
Disc2ContMethod ==
    /\ steps = 0
    /\ disc2cont_exact(heap, objs[1])
    /\ LET res == ss_disc2cont(heap, objs[1])
       IN  /\ heap' = res.h
           /\ objs' = [objs EXCEPT ![1] = res.o]
           /\ ret' = Out("ss.disc2cont", 0, res.exc, 1)
    /\ steps' = 1

\* eigvals(model.A, dlti)
Eigvals ==
    /\ steps = 0
    /\ \E dlti \in BOOLEAN :
          \E ev \in eigvals(val(heap, objs[1].A), dlti) :
             ret' = Out("eigvals", 0, "", [dlti |-> dlti, eigs |-> ev])
    /\ steps' = 1
    /\ UNCHANGED <<heap, objs>>

\* model.eigvals()
EigvalsMethod ==
    /\ steps = 0
    /\ ret' = Out("ss.eigvals", 0, ss_eigvals_exc(objs[1]), <<>>)
    /\ steps' = 1
    /\ UNCHANGED <<heap, objs>>

NextConv ==
    \/ Disc2Cont
    \/ Disc2ContMethod
    \/ Eigvals
    \/ EigvalsMethod

SpecConv == InitConv /\ [][NextConv]_vars

-----------------------------------------------------------------------------
(* Claims on the conversion and the eigenvalues *)

\* the model the call was made on
Model == objs[1]

\* C16: both the method disc2cont() and the standalone disc2cont(model)
\* fail with an error when the model's dt is absent
C16_BothFailWithoutDt ==
    (ret.op \in {"disc2cont", "ss.disc2cont"} /\ Model.dt = NoDt) => ret.exc # ""

\* the method returned without an error on a model without dt, and left it
\* as it was, while the function raised on such a model
C16_Witness ==
    /\ ret.op = "ss.disc2cont"
    /\ Model.dt = NoDt
    /\ ret.exc = ""

\* C16, the standalone function alone: disc2cont(model) fails when the
\* model's dt is absent
C16_FunctionFailsWithoutDt ==
    (ret.op = "disc2cont" /\ Model.dt = NoDt) => ret.exc = "AssertionError"

\* v is in ascending order of the modulus (dlti) or of the real part
Ordered(v, dlti) ==
    \A i \in 1..(Len(v) - 1) :
        IF dlti THEN Abs(v[i]) <= Abs(v[i + 1]) ELSE v[i] <= v[i + 1]

\* C17: the method eigvals() returns the eigenvalues of the model's A,
\* ordered by modulus when dt is set and by ascending real part when dt is
\* absent
C17_MethodEigvalsOrdered ==
    ret.op = "ss.eigvals" =>
        /\ ret.exc = ""
        /\ Len(ret.val) = Model.A.r
        /\ Ordered(ret.val, Model.dt # NoDt)

\* the method was called and raised
C17_Witness ==
    /\ ret.op = "ss.eigvals"
    /\ ret.exc = "AttributeError"
    /\ Model.A.r = 2

-----------------------------------------------------------------------------
(* class ss_block: A, B, C, D are nested lists of blocks.  A block is       *)
(* represented by its name, the matrix and the block row and column it had  *)
(* when the model was built.  Partition number k has size k when the model  *)
(* is built, so that the second and third entries of a block are also its   *)
(* numbers of rows and of columns.                                          *)

MaxBlocks == 3

\* del s[k], k counted from 0 and within range
del_at(s, k) == SubSeq(s, 1, k) \o SubSeq(s, k + 2, Len(s))

\* the nested list of a matrix of r block rows and c block columns
block_list(name, r, c) == [i \in 1..r |-> [j \in 1..c |-> <<name, i, j>>]]

\* ss_block(A, B, C, D, S_states, S_inputs, S_outputs)
ss_block(nx, nu, ny) ==
    [cls |-> "ss_block",
     A |-> block_list("A", nx, nx), B |-> block_list("B", nx, nu),
     C |-> block_list("C", ny, nx), D |-> block_list("D", ny, nu),
     blocks_x |-> nx, blocks_u |-> nu, blocks_y |-> ny,
     S_x |-> [k \in 1..nx |-> k], S_u |-> [k \in 1..nu |-> k], S_y |-> [k \in 1..ny |-> k],
     states |-> SumF([k \in 1..nx |-> k], nx), inputs |-> SumF([k \in 1..nu |-> k], nu),
     outputs |-> SumF([k \in 1..ny |-> k], ny)]

\* for ii in range(n): del M[ii][index], from row ii on
RECURSIVE del_in_rows(_, _, _, _)
del_in_rows(M, n, index, ii) ==
    IF ii >= n THEN [M |-> M, exc |-> ""]
    ELSE IF ii >= Len(M) \/ index >= Len(M[ii + 1]) THEN [M |-> M, exc |-> "IndexError"]
    ELSE del_in_rows([M EXCEPT ![ii + 1] = del_at(M[ii + 1], index)], n, index, ii + 1)

\* for ii in range(n): del C[ii]; del D[ii], from ii on
RECURSIVE del_rows(_, _, _, _)
del_rows(C, D, n, ii) ==
    IF ii >= n THEN [C |-> C, D |-> D, exc |-> ""]
    ELSE IF ii >= Len(C) THEN [C |-> C, D |-> D, exc |-> "IndexError"]
    ELSE IF ii >= Len(D) THEN [C |-> del_at(C, ii), D |-> D, exc |-> "IndexError"]
    ELSE del_rows(del_at(C, ii), del_at(D, ii), n, ii + 1)

\* ss_block.remove_block(where, index)
remove_block(o, where, index) ==
    IF where \notin {"in", "out"} THEN [o |-> o, exc |-> "AssertionError"]
    ELSE IF where = "in" THEN
        LET b == del_in_rows(o.B, o.blocks_x, index, 0)
            o1 == [o EXCEPT !.B = b.M]
        IN  IF b.exc # "" THEN [o |-> o1, exc |-> b.exc]
            ELSE LET d == del_in_rows(o.D, o.blocks_y, index, 0)
                 IN  [o |-> [o1 EXCEPT !.D = d.M], exc |-> d.exc]
    ELSE
        LET r == del_rows(o.C, o.D, o.blocks_y, 0)
        IN  [o |-> [o EXCEPT !.C = r.C, !.D = r.D], exc |-> r.exc]

\* libsp.block_dot(X, Y) is defined: X and Y are not empty, every block row
\* of X has as many blocks as Y has block rows, and the sizes agree
BlockDotOk(X, Y) ==
    /\ Len(X) >= 1 /\ Len(Y) >= 1 /\ Len(Y[1]) >= 1
    /\ \A i \in 1..Len(X) :
          /\ Len(X[i]) = Len(Y)
          /\ \A k \in 1..Len(Y) : Len(Y[k]) = Len(Y[1]) /\ X[i][k][3] = Y[k][1][2]

\* libsp.block_dot(X, Y): block (i, j) has the rows of block row i of X and
\* the columns of block column j of Y
block_dot(name, X, Y) ==
    [i \in 1..Len(X) |-> [j \in 1..Len(Y[1]) |-> <<name, X[i][1][2], Y[1][j][3]>>]]

\* ss_block.get_sizes(M) on a block matrix without empty blocks
get_sizes(M) ==
    [rows |-> [i \in 1..Len(M) |-> M[i][1][2]],
     cols |-> [j \in 1..Len(M[1]) |-> M[1][j][3]]]

\* ss_block.addGain(K, where)
ss_block_addGain(o, K, where) ==
    IF where \notin {"in", "out"} THEN [o |-> o, exc |-> "AssertionError"]
    ELSE IF where = "in" THEN
        IF ~BlockDotOk(o.B, K) THEN [o |-> o, exc |-> "ValueError"]
        ELSE IF ~BlockDotOk(o.D, K)
        THEN [o |-> [o EXCEPT !.B = block_dot("B", o.B, K)], exc |-> "ValueError"]
        ELSE [o |-> [o EXCEPT !.B = block_dot("B", o.B, K),
                              !.D = block_dot("D", o.D, K),
                              !.S_u = get_sizes(K).cols,
                              !.blocks_u = Len(get_sizes(K).cols),
                              !.inputs = SumF(get_sizes(K).cols, Len(get_sizes(K).cols))],
              exc |-> ""]
    ELSE
        IF ~BlockDotOk(K, o.C) THEN [o |-> o, exc |-> "ValueError"]
        ELSE IF ~BlockDotOk(K, o.D)
        THEN [o |-> [o EXCEPT !.C = block_dot("C", K, o.C)], exc |-> "ValueError"]
        ELSE [o |-> [o EXCEPT !.C = block_dot("C", K, o.C),
                              !.D = block_dot("D", K, o.D),
                              !.S_y = get_sizes(K).rows,
                              !.blocks_y = Len(get_sizes(K).rows),
                              !.outputs = SumF(get_sizes(K).rows, Len(get_sizes(K).rows))],
              exc |-> ""]

\* ss_block.project(WT, V, by_arrays=True, overwrite=True) with arrays WT of
\* shape (Nk, states) and V of shape (states, Nk), cut along S_x
ss_block_project(o, Nk) ==
    LET Vblock == [i \in 1..o.blocks_x |-> << <<"V", o.S_x[i], Nk>> >>]
        WTblock == << [i \in 1..o.blocks_x |-> <<"WT", Nk, o.S_x[i]>>] >>
    IN  IF ~BlockDotOk(o.A, Vblock) \/ ~BlockDotOk(WTblock, block_dot("A", o.A, Vblock))
        THEN [o |-> o, exc |-> "ValueError"]
        ELSE LET o1 == [o EXCEPT !.A = block_dot("A", WTblock, block_dot("A", o.A, Vblock))]
             IN  IF ~BlockDotOk(WTblock, o.B) THEN [o |-> o1, exc |-> "ValueError"]
                 ELSE IF ~BlockDotOk(o.C, Vblock)
                 THEN [o |-> [o1 EXCEPT !.B = block_dot("B", WTblock, o.B)],
                       exc |-> "ValueError"]
                 ELSE [o |-> [o1 EXCEPT !.B = block_dot("B", WTblock, o.B),
                                        !.C = block_dot("C", o.C, Vblock)],
                       exc |-> ""]

\* the gains a caller builds for a partition of sizes S: one or two new
\* partitions
BlockGains(S, where) ==
    { IF where = "in"
      THEN [i \in 1..Len(S) |-> [j \in 1..Len(new) |-> <<"K", S[i], new[j]>>]]
      ELSE [i \in 1..Len(new) |-> [j \in 1..Len(S) |-> <<"K", new[i], S[j]>>]] :
        new \in {<<2>>, <<1, 3>>} }

InitBlock ==
    \E nx \in 1..2, nu \in 1..MaxBlocks, ny \in 1..MaxBlocks :
        /\ heap = <<>>
        /\ objs = <<ss_block(nx, nu, ny)>>
        /\ ret = Out("none", 0, "", 0)
        /\ steps = 0

\* model.remove_block(where, index)
RemoveBlock ==
    /\ steps < MaxSteps
    /\ \E where \in {"in", "out", "both"}, index \in 0..MaxBlocks :
          LET res == remove_block(objs[1], where, index)
          IN  /\ objs' = <<res.o>>
              /\ ret' = Out("remove_block", 1, res.exc, [where |-> where, index |-> index])
    /\ steps' = steps + 1
    /\ UNCHANGED heap

\* model.addGain(K, where) with a gain built for the partition the model
\* reports
BlockAddGain ==
    /\ steps < MaxSteps
    /\ \E where \in {"in", "out"} :
          \E K \in BlockGains(IF where = "in" THEN objs[1].S_u ELSE objs[1].S_y, where) :
             LET res == ss_block_addGain(objs[1], K, where)
             IN  /\ objs' = <<res.o>>
                 /\ ret' = Out("addGain", 1, res.exc, [where |-> where, K |-> K])
    /\ steps' = steps + 1
    /\ UNCHANGED heap

\* model.project(WT, V, overwrite=True) onto Nk states
BlockProject ==
    /\ steps < MaxSteps
    /\ \E Nk \in 1..2 :
          LET res == ss_block_project(objs[1], Nk)
          IN  /\ objs' = <<res.o>>
              /\ ret' = Out("project", 1, res.exc, [Nk |-> Nk])
    /\ steps' = steps + 1
    /\ UNCHANGED heap

NextBlock ==
    \/ RemoveBlock
    \/ BlockAddGain
    \/ BlockProject

SpecBlock == InitBlock /\ [][NextBlock]_vars

-----------------------------------------------------------------------------
(* Claims on the block model *)

\* s without its entry number k (counted from 0)
Without(s, k) == [i \in 1..(Len(s) - 1) |-> IF i <= k THEN s[i] ELSE s[i + 1]]

\* every row of M without its entry number k
WithoutCol(M, k) == [i \in 1..Len(M) |-> Without(M[i], k)]

\* the arguments of the last remove_block call
BlockWhere == ret'.val.where
BlockIndex == ret'.val.index

\* C19: on a block model as built, remove_block('in', index) deletes exactly
\* block column index from every block row of B and D, and
\* remove_block('out', index) deletes exactly block row index from C and D;
\* every other block stays in place and in order, for any number of blocks
\* and any valid index.
C19_RemoveBlock ==
    [][(ret'.op = "remove_block" /\ steps = 0) =>
          /\ (BlockWhere = "in" /\ BlockIndex < Before.blocks_u) =>
                /\ ret'.exc = ""
                /\ After.B = WithoutCol(Before.B, BlockIndex)
                /\ After.D = WithoutCol(Before.D, BlockIndex)
                /\ After.A = Before.A /\ After.C = Before.C
          /\ (BlockWhere = "out" /\ BlockIndex < Before.blocks_y) =>
                /\ ret'.exc = ""
                /\ After.C = Without(Before.C, BlockIndex)
                /\ After.D = Without(Before.D, BlockIndex)
                /\ After.A = Before.A /\ After.B = Before.B]_steps

\* C19 for the inputs alone: remove_block('in', index) with a valid index
\* deletes exactly block column index from every block row of B and D
C19_RemoveBlockIn ==
    [][(/\ ret'.op = "remove_block" /\ steps = 0
        /\ BlockWhere = "in" /\ BlockIndex < Before.blocks_u) =>
          /\ ret'.exc = ""
          /\ After.B = WithoutCol(Before.B, BlockIndex)
          /\ After.D = WithoutCol(Before.D, BlockIndex)
          /\ After.A = Before.A /\ After.C = Before.C]_steps

\* remove_block('out', 2) on a model as built with three output blocks raised
\* after it had deleted block rows 0 and 2 from C and D: block row 1 is left
C19_Witness ==
    /\ ret.op = "remove_block" /\ ret.exc = "IndexError"
    /\ ret.val.where = "out" /\ ret.val.index = 2
    /\ objs[1].blocks_y = 3
    /\ Len(objs[1].C) = 1 /\ objs[1].C[1][1] = <<"C", 2, 1>>
    /\ Len(objs[1].D) = 1 /\ objs[1].D[1][1] = <<"D", 2, 1>>

-----------------------------------------------------------------------------
(* SSconv and SSderivative.  The step ds is a fraction num/den for which    *)
(* the coefficients 0.5/ds, -2/ds and 1.5/ds are integers.                  *)

SimLen == 4

\* an argument that is None
NoneArr == [nd |-> 0, r |-> 0, c |-> 0, e |-> <<>>]

\* np.block promotes a 1-D block of length L to shape (1, L)
block_promote(X) ==
    IF X.nd = 1 THEN Arr(2, 1, X.r, LAMBDA i, j: X.e[j][1]) ELSE X

\* mutant: the direct term without the prediction
Dh_plain(C, D, B1) == D

\* Dh = D + libsp.dot(C, B1)
Dh(C, D, B1) == Add(D, dot(C, B1))

\* mutant: the input matrix without the prediction
Bh_current(A, B0, B1) == IF B0 = NoneArr THEN dot(A, B1) ELSE B0

\* Bh = libsp.dot(A, B1) if B0 is None, else B0 + libsp.dot(A, B1)
Bh(A, B0, B1) == IF B0 = NoneArr THEN dot(A, B1) ELSE Add(B0, dot(A, B1))

\* mutant: the delay term is dropped
SSconv_nodelay(A, B0, B1, C, D, Bm1) == <<A, Bh(A, B0, B1), C, Dh(C, D, B1)>>

\* SSconv(A, B0, B1, C, D, Bm1): the tuple (A, B, C, D) of the converted model
SSconv(A, B0, B1, C, D, Bm1) ==
    IF Bm1 = NoneArr THEN <<A, Bh(A, B0, B1), C, Dh(C, D, B1)>>
    ELSE LET Nx == A.r
             Nu == Bh(A, B0, B1).c
             Ny == C.r
         IN  << block2(A, block_promote(Bm1), zeros(Nu, Nx), zeros(Nu, Nu)),
                vstack(Bh(A, B0, B1), eye(Nu)),
                hstack(C, zeros(Ny, Nu)),
                Dh(C, D, B1) >>

\* k2 / (2 ds) for ds = num/den
over_ds(k2, ds) == Quot(k2 * ds.den, 2 * ds.num)

\* the steps explored: 1/2, 1/4 and -1/2
DsSet == {[num |-> 1, den |-> 2], [num |-> 1, den |-> 4], [num |-> -1, den |-> 2]}

\* SSderivative(ds)
SSderivative(ds) ==
    LET A == Arr(2, 1, 1, LAMBDA i, j: 0)
        Bm1 == Arr(1, 1, 1, LAMBDA i, j: over_ds(1, ds))
        B0 == Arr(2, 1, 1, LAMBDA i, j: over_ds(-4, ds))
        B1 == Arr(2, 1, 1, LAMBDA i, j: over_ds(3, ds))
        C == Arr(2, 2, 1, LAMBDA i, j: IF i = 1 THEN 0 ELSE 1)
        D == Arr(2, 2, 1, LAMBDA i, j: IF i = 1 THEN 1 ELSE 0)
    IN  SSconv(A, B0, B1, C, D, Bm1)

\* the inputs fed to the realization
InputSet == {-1, 0, 1, 2}

\* objs[1] is the returned realization, heap[1] its state, ret.val the
\* inputs fed so far and the last output
InitDeriv ==
    \E ds \in DsSet :
        LET t == SSderivative(ds)
        IN  /\ objs = <<[cls |-> "tuple", A |-> t[1], B |-> t[2], C |-> t[3], D |-> t[4],
                         ds |-> ds]>>
            /\ heap = <<Arr(1, t[1].r, 1, LAMBDA i, j: 0)>>
            /\ ret = Out("SSderivative", 1, "", [u |-> <<>>, y |-> Arr(1, t[3].r, 1, LAMBDA i, j: 0)])
            /\ steps = 0

\* one step of the realization: y_n = C h_n + D u_n, h_(n+1) = A h_n + B u_n
Step ==
    /\ steps < SimLen
    /\ \E u \in InputSet :
          LET m == objs[1]
              U == Arr(1, 1, 1, LAMBDA i, j: u)
          IN  /\ ret' = Out("step", 1, "",
                            [u |-> Append(ret.val.u, u),
                             y |-> Add(dot(m.C, heap[1]), dot(m.D, U))])
              /\ heap' = <<Add(dot(m.A, heap[1]), dot(m.B, U))>>
    /\ steps' = steps + 1
    /\ UNCHANGED objs

NextDeriv == Step

SpecDeriv == InitDeriv /\ [][NextDeriv]_vars

-----------------------------------------------------------------------------
(* Claims on the derivative realization *)

\* the inputs fed so far: entry n + 1 is u_n
Fed == ret.val.u

\* C20: started from the zero state, the realization returned by
\* SSderivative(ds) outputs at every step n >= 2 the pair
\* [u_n, (1.5 u_n - 2 u_(n-1) + 0.5 u_(n-2)) / ds]; with ds = num/den the
\* second entry y satisfies 2 num y = den (3 u_n - 4 u_(n-1) + u_(n-2)).
C20_ThreePointDerivative ==
    (ret.op = "step" /\ Len(Fed) >= 3) =>
        LET k == Len(Fed)
        IN  /\ ret.val.y.r = 2
            /\ ret.val.y.e[1][1] = Fed[k]
            /\ 2 * objs[1].ds.num * ret.val.y.e[2][1] =
                  objs[1].ds.den * (3 * Fed[k] - 4 * Fed[k - 1] + Fed[k - 2])

\* step 2 has been taken with three different inputs and a non-zero
\* derivative
C20_Witness ==
    /\ ret.op = "step"
    /\ Fed = <<2, -1, 1>>
    /\ objs[1].ds = [num |-> 1, den |-> 4]
    /\ ret.val.y.e[2][1] = 18

-----------------------------------------------------------------------------
(* SSintegr, and the converted models of SSconv run next to the difference  *)
(* equation they come from.  The step ds of the integrator is an even       *)
(* integer, for which 0.5 ds is an integer.                                 *)

\* SSintegr(ds, method): the tuple (A, B, C, D), or the error raised
SSintegr(ds, method) ==
    LET A == Arr(2, 1, 1, LAMBDA i, j: 1)
        C == Arr(2, 1, 1, LAMBDA i, j: 1)
        D == Arr(2, 1, 1, LAMBDA i, j: 0)
    IN  IF method = "1tay" THEN
            [t |-> <<A, Arr(2, 1, 1, LAMBDA i, j: ds), C, D>>, exc |-> ""]
        ELSE IF method = "trap" THEN
            [t |-> SSconv(A, Arr(2, 1, 1, LAMBDA i, j: ds \div 2),
                          Arr(2, 1, 1, LAMBDA i, j: ds \div 2), C, D, NoneArr),
             exc |-> ""]
        ELSE [t |-> <<>>, exc |-> "NameError"]

\* the difference equation of the integrator: A, B0, B1, C, D, Bm1
integr_eq(ds, method) ==
    [A |-> Arr(2, 1, 1, LAMBDA i, j: 1),
     B0 |-> Arr(2, 1, 1, LAMBDA i, j: IF method = "1tay" THEN ds ELSE ds \div 2),
     B1 |-> Arr(2, 1, 1, LAMBDA i, j: IF method = "1tay" THEN 0 ELSE ds \div 2),
     C |-> Arr(2, 1, 1, LAMBDA i, j: 1),
     D |-> Arr(2, 1, 1, LAMBDA i, j: 0),
     Bm1 |-> NoneArr]

\* the calls explored: SSintegr(ds, method), and SSconv on equations with Nx
\* states, Nu inputs, Ny outputs, with and without B0, with and without Bm1
\* (a matrix, or a vector as SSderivative passes it)
SimCases ==
    { [call |-> "SSintegr", ds |-> ds, method |-> me, eq |-> integr_eq(ds, me),
       res |-> SSintegr(ds, me)] : ds \in {2, 4}, me \in {"1tay", "trap", "simpson"} }
    \cup
    { LET eq == [A |-> Gen(2, d[1], d[1], 1),
                 B0 |-> IF b0 THEN Gen(2, d[1], d[2], 2) ELSE NoneArr,
                 B1 |-> Gen(2, d[1], d[2], 0),
                 C |-> Gen(2, d[3], d[1], 2),
                 D |-> Gen(2, d[3], d[2], 1),
                 Bm1 |-> CASE bm = "none" -> NoneArr
                           [] bm = "matrix" -> Gen(2, d[1], d[2], 1)
                           [] OTHER -> Arr(1, 1, 1, LAMBDA i, j: 2)]
      IN  [call |-> "SSconv", ds |-> 0, method |-> "", eq |-> eq,
           res |-> [t |-> SSconv(eq.A, eq.B0, eq.B1, eq.C, eq.D, eq.Bm1), exc |-> ""]] :
        d \in {<<1, 1, 1>>, <<2, 1, 1>>, <<1, 2, 2>>, <<2, 2, 1>>},
        b0 \in BOOLEAN, bm \in {"none", "matrix"} }
    \cup
    { LET eq == [A |-> Gen(2, 1, 1, 1), B0 |-> Gen(2, 1, 1, 2), B1 |-> Gen(2, 1, 1, 0),
                 C |-> Gen(2, 2, 1, 2), D |-> Gen(2, 2, 1, 1),
                 Bm1 |-> Arr(1, 1, 1, LAMBDA i, j: 2)]
      IN  [call |-> "SSconv", ds |-> 0, method |-> "", eq |-> eq,
           res |-> [t |-> SSconv(eq.A, eq.B0, eq.B1, eq.C, eq.D, eq.Bm1), exc |-> ""]] }

\* the input vectors fed to a model with Nu inputs
SimInputs(Nu) ==
    IF Nu = 1 THEN {Arr(1, 1, 1, LAMBDA i, j: v) : v \in {-1, 0, 1}}
    ELSE {Arr(1, 2, 1, LAMBDA i, j: IF i = 1 THEN v[1] ELSE v[2]) :
            v \in {<<0, 0>>, <<1, 0>>, <<0, 1>>, <<-1, 2>>}}

\* X as a matrix of shape (r, c): None counts as zero, a vector as one row
AsMat(X, r, c) ==
    IF X = NoneArr THEN zeros(r, c)
    ELSE IF X.nd = 1 THEN Arr(2, 1, X.r, LAMBDA i, j: X.e[j][1])
    ELSE X

\* x_n of the difference equation eq, from x_(n-1) and the inputs u_0 .. u_n
\* (us, entry n + 1 is u_n): x_0 = B1 u_0, inputs before u_0 are zero
eq_state(eq, xprev, us) ==
    LET k == Len(us)
        Nx == eq.A.r
        Nu == eq.B1.c
        zero == Arr(1, Nu, 1, LAMBDA i, j: 0)
        past(b) == IF k - b >= 1 THEN us[k - b] ELSE zero
    IN  IF k = 1 THEN dot(eq.B1, us[1])
        ELSE Add(Add(dot(eq.A, xprev), dot(AsMat(eq.B0, Nx, Nu), past(1))),
                 Add(dot(eq.B1, us[k]), dot(AsMat(eq.Bm1, Nx, Nu), past(2))))

\* objs[1] is the call and what it returned, heap[1] the state h of the
\* returned model, heap[2] the state x of the difference equation; ret.val
\* holds the inputs fed so far, the outputs of the model and of the equation
InitSim ==
    \E c \in SimCases :
        /\ objs = <<c>>
        /\ heap = IF c.res.exc = ""
                  THEN <<Arr(1, c.res.t[1].r, 1, LAMBDA i, j: 0),
                         Arr(1, c.eq.A.r, 1, LAMBDA i, j: 0)>>
                  ELSE <<>>
        /\ ret = Out(c.call, 1, c.res.exc, [u |-> <<>>, y |-> <<>>, yref |-> <<>>])
        /\ steps = 0

\* one step of both: y_n = C h_n + D u_n, h_(n+1) = A h_n + B u_n for the
\* returned model; x_n and y_n = C x_n + D u_n for the equation
StepSim ==
    /\ steps < SimLen
    /\ objs[1].res.exc = ""
    /\ \E u \in SimInputs(objs[1].eq.B1.c) :
          LET t == objs[1].res.t
              eq == objs[1].eq
              us == Append(ret.val.u, u)
              x == eq_state(eq, heap[2], us)
          IN  /\ ret' = [ret EXCEPT !.val =
                            [u |-> us,
                             y |-> Append(ret.val.y, Add(dot(t[3], heap[1]), dot(t[4], u))),
                             yref |-> Append(ret.val.yref, Add(dot(eq.C, x), dot(eq.D, u)))]]
              /\ heap' = <<Add(dot(t[1], heap[1]), dot(t[2], u)), x>>
    /\ steps' = steps + 1
    /\ UNCHANGED objs

NextSim == StepSim

SpecSim == InitSim /\ [][NextSim]_vars

-----------------------------------------------------------------------------
(* Claims on the integrator and on SSconv *)

\* the scalar inputs and outputs of the integrator so far: entry n + 1 is
\* u_n, y_n
IntU(k) == ret.val.u[k].e[1][1]
IntY(k) == ret.val.y[k].e[1][1]

\* C21: the integrator returned by SSintegr(ds, method) satisfies, for every
\* input sequence and every step, y_(n+1) = y_n + ds u_n for '1tay' and
\* y_(n+1) = y_n + (ds/2)(u_n + u_(n+1)) for 'trap' (checked doubled); driven
\* from the zero state by a constant unit input, the 'trap' output after N
\* steps is within ds of N ds; any other method name raises.
C21_Integrator ==
    ret.op = "SSintegr" =>
        LET ds == objs[1].ds
            me == objs[1].method
            N == Len(ret.val.u)
        IN  /\ me \notin {"1tay", "trap"} => ret.exc # ""
            /\ me \in {"1tay", "trap"} => ret.exc = ""
            /\ me = "1tay" =>
                  \A k \in 1..(N - 1) : IntY(k + 1) = IntY(k) + ds * IntU(k)
            /\ me = "trap" =>
                  \A k \in 1..(N - 1) :
                      2 * IntY(k + 1) = 2 * IntY(k) + ds * (IntU(k) + IntU(k + 1))
            /\ (me = "trap" /\ N >= 1 /\ \A k \in 1..N : IntU(k) = 1) =>
                  /\ Abs(IntY(N) - N * ds) <= Abs(ds)
                  /\ Abs(heap[1].e[1][1] - N * ds) <= Abs(ds)

\* the trapezoidal integrator has been driven by inputs that differ
C21_Witness ==
    /\ ret.op = "SSintegr" /\ objs[1].method = "trap" /\ objs[1].ds = 4
    /\ Len(ret.val.u) = 3
    /\ IntU(1) = 1 /\ IntU(2) = -1 /\ IntU(3) = 1
    /\ IntY(3) = 2

\* C25: for every input sequence the model returned by SSconv produces the
\* outputs of the difference equation x_(n+1) = A x_n + B0 u_n + B1 u_(n+1)
\* + Bm1 u_(n-1), y_n = C x_n + D u_n, with x_n = h_n + B1 u_n; without Bm1
\* A and C are returned as given, Bh = B0 + A B1 (A B1 when B0 is None) and
\* Dh = D + C B1; with Bm1 the state is augmented by g_n = u_(n-1).
C25_SSconvEquivalent ==
    ret.op = "SSconv" =>
        LET eq == objs[1].eq
            t == objs[1].res.t
            Nx == eq.A.r
            Nu == eq.B1.c
            N == Len(ret.val.u)
            us == ret.val.u
            zero == Arr(1, Nu, 1, LAMBDA i, j: 0)
        IN  /\ ret.val.y = ret.val.yref
            /\ N >= 1 =>
                  \* h_N = x_N - B1 u_N = A x_(N-1) + B0 u_(N-1) + Bm1 u_(N-2)
                  /\ \A i \in 1..Nx :
                        heap[1].e[i][1] =
                            Add(Add(dot(eq.A, heap[2]), dot(AsMat(eq.B0, Nx, Nu), us[N])),
                                dot(AsMat(eq.Bm1, Nx, Nu),
                                    IF N >= 2 THEN us[N - 1] ELSE zero)).e[i][1]
                  \* g_N = u_(N-1)
                  /\ eq.Bm1 # NoneArr =>
                        \A i \in 1..Nu : heap[1].e[Nx + i][1] = us[N].e[i][1]
            /\ eq.Bm1 = NoneArr =>
                  /\ t[1] = eq.A /\ t[3] = eq.C
                  /\ t[2] = Add(AsMat(eq.B0, Nx, Nu), dot(eq.A, eq.B1))
                  /\ t[4] = Add(eq.D, dot(eq.C, eq.B1))
            /\ eq.Bm1 # NoneArr => heap[1].r = Nx + Nu

\* a model with two states, two inputs, a prediction and a delay term has
\* been run for three steps on inputs that differ, with a non-zero output
C25_Witness ==
    /\ ret.op = "SSconv"
    /\ objs[1].eq.A.r = 2 /\ objs[1].eq.B1.c = 2
    /\ objs[1].eq.B0 # NoneArr /\ objs[1].eq.Bm1 # NoneArr
    /\ Len(ret.val.u) = 3
    /\ ret.val.u[1] # ret.val.u[2] /\ ret.val.u[2] # ret.val.u[3]
    /\ ret.val.y[3].e[1][1] # 0
    /\ ret.val.y[3] # ret.val.y[2]

-----------------------------------------------------------------------------
(* Functions of the module that return a new model: addGain, project,       *)
(* build_SS_poly                                                            *)

\* ss(A, B, C, D, dt) on arrays that exist: the new object refers to them
ss_on(h, A, B, C, D, dt) ==
    LET exc == ss_init_exc(A, B, C, D)
    IN  IF exc = "" THEN R(h, ss_init(A, B, C, D, dt), "") ELSE R(h, NoObj, exc)

\* mutant: addGain works on a deep copy of its operand
addGain_operand_copied(h, o) == deepcopy(h, o)

\* the operand whose matrices addGain takes over: SShere itself
addGain_operand(h, o) == [h |-> h, o |-> o]

\* addGain(SShere, Kmat, where) with where 'in' or 'out'
addGain(h, o0, K, where) ==
    LET src == addGain_operand(h, o0)
        o == src.o
        Kmat == val(h, K)
    IN  IF where \notin {"in", "out", "parallel-down", "parallel-up"}
        THEN R(h, NoObj, "AssertionError")
        ELSE IF where = "in" THEN
            IF ~DotOk(val(src.h, o.B), Kmat) \/ ~DotOk(val(src.h, o.D), Kmat)
            THEN R(h, NoObj, "ValueError")
            ELSE LET b == alloc(src.h, dot(val(src.h, o.B), Kmat))
                     d == alloc(b.h, dot(val(src.h, o.D), Kmat))
                 IN  ss_on(d.h, o.A, b.ref, o.C, d.ref, o.dt)
        ELSE IF where = "out" THEN
            IF ~DotOk(Kmat, val(src.h, o.C)) \/ ~DotOk(Kmat, val(src.h, o.D))
            THEN R(h, NoObj, "ValueError")
            ELSE LET c == alloc(src.h, dot(Kmat, val(src.h, o.C)))
                     d == alloc(c.h, dot(Kmat, val(src.h, o.D)))
                 IN  ss_on(d.h, o.A, o.B, c.ref, d.ref, o.dt)
        ELSE R(h, NoObj, "NotModelled")

\* project(ss_here, WT, V): new A, B, C; D is the operand's
project(h, o, WT, V) ==
    LET W == val(h, WT)
        Vv == val(h, V)
    IN  IF ~DotOk(val(h, o.A), Vv) \/ ~DotOk(W, dot(val(h, o.A), Vv))
           \/ ~DotOk(W, val(h, o.B)) \/ ~DotOk(val(h, o.C), Vv)
        THEN R(h, NoObj, "ValueError")
        ELSE LET a == alloc(h, dot(W, dot(val(h, o.A), Vv)))
                 b == alloc(a.h, dot(W, val(h, o.B)))
                 c == alloc(b.h, dot(val(h, o.C), Vv))
             IN  ss_on(c.h, a.ref, b.ref, c.ref, o.D, o.dt)

\* the sampling interval ds = num/den as a dt; it is only compared with itself
dt_of(ds) == Dt(ds.den, 0)

\* Kforce[:, 3 ii + k] = sign * Acf[:, ii, k]; Acf[k + 1] is the slice Acf[:, :, k]
Kforce(Acf, Nout, Nin, sign) ==
    Arr(2, Nout, 3 * Nin,
        LAMBDA i, j: sign * Acf[((j - 1) % 3) + 1].e[i][((j - 1) \div 3) + 1])

\* for ii in range(n): SSder_all = join2(SSder_all, SSder02)
RECURSIVE join2_times(_, _, _, _)
join2_times(h, all, one, n) ==
    IF n <= 0 THEN R(h, all, "")
    ELSE LET j == join2(h, all, one)
         IN  IF j.exc # "" THEN j ELSE join2_times(j.h, j.out, one, n - 1)

\* sign = 1.0; if negative == True: sign = -1.0
poly_sign(negative) == IF negative THEN -1 ELSE 1

\* SSder = scsig.dlti(Ader, Bder, Cder, Dder, dt=ds), t the tuple of
\* SSderivative(ds)
SSder(h, t, ds) == new_dlti(h, t[1], t[2], t[3], t[4], dt_of(ds))

\* join2(np.array([[1]]), SSder)
one_and_der(h, der) == join2(h, gain(Ref(Len(h), eye(1))), der)

\* SSder02 = series(SSder, join2(np.array([[1]]), SSder)), der the result of
\* the call that built SSder
SSder02(der, j) ==
    IF j.exc # "" THEN j ELSE series(j.h, der.out, j.out)

\* SSder_all = copy.deepcopy(SSder02), then joined Nin - 1 times with SSder02
SSder_all(cp, der02, Nin) == join2_times(cp.h, cp.o, der02.out, Nin - 1)

\* SSpoly_neg = addGain(SSder_all, Kforce, where='out')
SSpoly_neg(all, Kmat) ==
    IF all.exc # "" THEN R(all.h, NoObj, all.exc)
    ELSE addGain(Append(all.h, Kmat), all.out, Ref(Len(all.h) + 1, Kmat), "out")

\* the part of build_SS_poly after SSder02
poly_from(der02, Acf, Nout, Nin, negative) ==
    IF der02.exc # "" THEN R(der02.h, NoObj, der02.exc)
    ELSE SSpoly_neg(SSder_all(deepcopy(der02.h, der02.out), der02, Nin),
                    Kforce(Acf, Nout, Nin, poly_sign(negative)))

\* the part of build_SS_poly after SSder
poly_der(der, Acf, Nout, Nin, negative) ==
    poly_from(SSder02(der, one_and_der(Append(der.h, eye(1)), der.out)),
              Acf, Nout, Nin, negative)

\* build_SS_poly(Acf, ds, negative), Acf of shape (Nout, Nin, Ncf)
build_SS_poly(h, Acf, Nout, Nin, ds, negative) ==
    IF Len(Acf) # 3 THEN R(h, NoObj, "AssertionError")
    ELSE poly_der(SSder(h, SSderivative(ds), ds), Acf, Nout, Nin, negative)

\* the coefficient arrays explored: entry k + 1 is the slice Acf[:, :, k]
AcfSet ==
    { [k \in 1..Ncf |-> Gen(2, Nout, Nin, s + k)] :
        Nout \in ModelDims, Nin \in ModelDims, Ncf \in {2, 3, 4}, s \in {0, 1} }

InitPoly ==
    /\ heap = <<>>
    /\ objs = <<>>
    /\ \E Acf \in AcfSet, ds \in DsSet, negative \in BOOLEAN :
          ret = Out("none", 0, "", [Acf |-> Acf, ds |-> ds, negative |-> negative])
    /\ steps = 0

\* build_SS_poly(Acf, ds, negative) on the arguments the caller holds
BuildSSPoly ==
    Call("build_SS_poly",
         build_SS_poly(heap, ret.val.Acf, ret.val.Acf[1].r, ret.val.Acf[1].c,
                       ret.val.ds, ret.val.negative),
         ret.val)

NextPoly == BuildSSPoly

SpecPoly == InitPoly /\ [][NextPoly]_vars

-----------------------------------------------------------------------------
(* Claims on build_SS_poly *)

\* 1.5/ds: what a unit input contributes to its own derivative at once
DerNow == over_ds(3, ret.val.ds)

\* C22: build_SS_poly(Acf, ds) rejects an Acf whose last dimension is not 3
\* and otherwise returns a model that realizes y = -(A0 u + A1 du + A2 d2u),
\* the sign being flipped only when the flag is set: its direct term from
\* input i to output o is -(A0 + (1.5/ds) A1 + (1.5/ds)^2 A2)[o, i], or the
\* opposite with the flag.
C22_PolyGain ==
    ret.op = "build_SS_poly" =>
        LET Acf == ret.val.Acf
            sign == IF ret.val.negative THEN 1 ELSE -1
        IN  IF Len(Acf) # 3 THEN ret.exc # ""
            ELSE /\ ret.exc = ""
                 /\ \A o \in 1..Acf[1].r, i \in 1..Acf[1].c :
                       val(heap, objs[ret.obj].D).e[o][i] =
                           sign * (Acf[1].e[o][i] + DerNow * Acf[2].e[o][i]
                                   + DerNow * DerNow * Acf[3].e[o][i])

\* build_SS_poly was called with default flag on an Acf of shape (2, 2, 3)
\* and raised in series
C22_Witness ==
    /\ ret.op = "build_SS_poly" /\ ret.exc = "AttributeError"
    /\ Len(ret.val.Acf) = 3 /\ ret.val.Acf[1].r = 2 /\ ret.val.Acf[1].c = 2
    /\ ~ret.val.negative
    /\ objs = <<>>

-----------------------------------------------------------------------------
(* adjust_phase.  Phases are held in thousandths of a degree or of a radian *)
(* (2 pi taken as 6.283), so that 0.97 of a period is compared exactly.     *)

PhaseLen == 3

\* mutant: the period is 360 whatever deg is
shift_deg(deg) == 360000

\* shift = 360. if deg is True, else 2. * np.pi
shift(deg) == IF deg THEN 360000 ELSE 6283

\* y[k::] = y[k::] + d, k counted from 0
shift_from(y, k, d) ==
    Arr(1, y.r, 1, LAMBDA i, j: IF i >= k + 1 THEN y.e[i][1] + d ELSE y.e[i][1])

\* the loop of adjust_phase from position ii on
RECURSIVE adjust_loop(_, _, _)
adjust_loop(y, sh, ii) ==
    IF ii >= y.r - 1 THEN y
    ELSE LET dy == y.e[ii + 2][1] - y.e[ii + 1][1]
         IN  IF 100 * dy > 97 * sh THEN adjust_loop(shift_from(y, ii + 1, -sh), sh, ii + 1)
             ELSE IF 100 * dy < -97 * sh THEN adjust_loop(shift_from(y, ii + 1, sh), sh, ii + 1)
             ELSE adjust_loop(y, sh, ii + 1)

\* adjust_phase(y, deg): y is modified in place and returned
adjust_phase(y, deg) == adjust_loop(y, shift(deg), 0)

\* the phase values explored, for the period sh
PhaseSet(sh) ==
    {-(sh \div 2), 0, (47 * sh) \div 100, (97 * sh) \div 100, (98 * sh) \div 100, sh, 2 * sh}

\* heap[1] is the phase array the caller holds
InitPhase ==
    \E deg \in BOOLEAN, N \in 0..PhaseLen :
        \E y \in [1..N -> PhaseSet(IF deg THEN 360000 ELSE 6283)] :
            /\ heap = <<Arr(1, N, 1, LAMBDA i, j: y[i])>>
            /\ objs = <<>>
            /\ ret = Out("none", 0, "", [deg |-> deg, y |-> y])
            /\ steps = 0

\* adjust_phase(y, deg) on the array the caller holds
AdjustPhase ==
    /\ steps = 0
    /\ heap' = <<adjust_phase(heap[1], ret.val.deg)>>
    /\ ret' = Out("adjust_phase", 0, "", ret.val)
    /\ steps' = 1
    /\ UNCHANGED objs

NextPhase == AdjustPhase

SpecPhase == InitPhase /\ [][NextPhase]_vars

-----------------------------------------------------------------------------
(* Claims on adjust_phase *)

\* the sequence handed to adjust_phase, the sequence returned, the period
PhaseIn == ret.val.y
PhaseOut == [i \in 1..heap[1].r |-> heap[1].e[i][1]]
Period == IF ret.val.deg THEN 360000 ELSE 6283

\* every sample of the result differs from its input value by a whole number
\* of periods
WholePeriods ==
    /\ Len(PhaseOut) = Len(PhaseIn)
    /\ \A i \in 1..Len(PhaseIn) : (PhaseOut[i] - PhaseIn[i]) % Period = 0

\* no two consecutive samples of s differ by more than c hundredths of a period
JumpsWithin(s, c) ==
    \A i \in 1..(Len(s) - 1) : 100 * Abs(s[i + 1] - s[i]) <= c * Period

\* C23 as stated: for every input sequence the result of adjust_phase is
\* continuous, no two consecutive samples differ by more than 0.97 of a
\* period (360 if deg, 2 pi otherwise), and every sample differs from its
\* input value by a whole number of periods.
C23_AlwaysContinuous ==
    ret.op = "adjust_phase" => (JumpsWithin(PhaseOut, 97) /\ WholePeriods)

\* C23: every sample differs from its input value by a whole number of
\* periods; a step of the input of more than 0.97 of a period is reduced by
\* exactly one period and every other step is kept, so that the result is
\* continuous when no step of the input exceeds 1.97 periods.
C23_OnePeriodPerJump ==
    ret.op = "adjust_phase" =>
        /\ WholePeriods
        /\ \A i \in 1..(Len(PhaseIn) - 1) :
              LET din == PhaseIn[i + 1] - PhaseIn[i]
                  dout == PhaseOut[i + 1] - PhaseOut[i]
              IN  dout = IF 100 * din > 97 * Period THEN din - Period
                         ELSE IF 100 * din < -97 * Period THEN din + Period
                         ELSE din
        /\ JumpsWithin(PhaseIn, 197) => JumpsWithin(PhaseOut, 97)

\* a phase in radians that jumps up by a period and then down by one and a
\* half periods has been unwrapped
C23_Witness ==
    /\ ret.op = "adjust_phase" /\ ~ret.val.deg
    /\ PhaseIn = <<0, 6283, -3141>>
    /\ PhaseOut = <<0, 0, -3141>>

-----------------------------------------------------------------------------
(* Claims on the closed loop that couple returns *)

\* the matrices of the operands and of the gains
CplM1 == Mats(heap, S1)
CplM2 == Mats(heap, S2)
G12 == val(heap, K12.A)
G21 == val(heap, K21.A)

\* L1 = I - K12 D2 K21 D1 and L2 = I - K21 D1 K12 D2
Loop1 == Add(eye(G12.r), Scal(-1, dot(G12, dot(CplM2[4], dot(G21, CplM1[4])))))
Loop2 == Add(eye(G21.r), Scal(-1, dot(G21, dot(CplM1[4], dot(G12, CplM2[4])))))

\* couple was called on two models of class ss with equal dt, gains of the
\* stated shapes and invertible L1, L2
C24_Case ==
    /\ ret.op = "couple" /\ ~ret.val.out_sparse
    /\ S1.cls = "ss" /\ S2.cls = "ss" /\ S1.dt = S2.dt /\ S1.dt # NoDt
    /\ G12.r = inputs(S1) /\ G12.c = outputs(S2)
    /\ G21.r = inputs(S2) /\ G21.c = outputs(S1)
    /\ Det(Loop1) # 0 /\ Det(Loop2) # 0

\* a matrix of r rows that picks the c entries after the first off entries of
\* a vector of length len
Pick(r, off, len) ==
    Arr(2, r, len, LAMBDA i, j: IF j = off + i THEN 1 ELSE 0)

\* C24: for operands with equal dt, gains K12 (ss1.inputs x ss2.outputs) and
\* K21 (ss2.inputs x ss1.outputs) and invertible L1, L2, couple returns a
\* model with state [x1; x2], inputs [r1; r2], outputs [y1; y2] that
\* reproduces the closed loop: as linear maps of (x1, x2, r1, r2), its
\* outputs and next state are those of the two subsystems run with
\* u1 = r1 + K12 y2 and u2 = r2 + K21 y1.
C24_ClosedLoop ==
    C24_Case =>
        /\ ret.exc = ""
        /\ LET n1 == states(S1)
               n2 == states(S2)
               m1 == inputs(S1)
               m2 == inputs(S2)
               p1 == outputs(S1)
               p2 == outputs(S2)
               len == n1 + n2 + m1 + m2
               M == Mats(heap, Result)
               Y == hstack(M[3], M[4])
               Xn == hstack(M[1], M[2])
               Y1 == Rows(Y, 0, p1)
               Y2 == Rows(Y, p1, p2)
               U1 == Add(Pick(m1, n1 + n2, len), dot(G12, Y2))
               U2 == Add(Pick(m2, n1 + n2 + m1, len), dot(G21, Y1))
               x1 == Pick(n1, 0, len)
               x2 == Pick(n2, n1, len)
           IN  /\ M[1].r = n1 + n2 /\ M[1].c = n1 + n2
               /\ M[2].r = n1 + n2 /\ M[2].c = m1 + m2
               /\ M[3].r = p1 + p2 /\ M[3].c = n1 + n2
               /\ M[4].r = p1 + p2 /\ M[4].c = m1 + m2
               /\ Result.dt = S1.dt
               /\ Y1 = Add(dot(CplM1[3], x1), dot(CplM1[4], U1))
               /\ Y2 = Add(dot(CplM2[3], x2), dot(CplM2[4], U2))
               /\ Rows(Xn, 0, n1) = Add(dot(CplM1[1], x1), dot(CplM1[2], U1))
               /\ Rows(Xn, n1, n2) = Add(dot(CplM2[1], x2), dot(CplM2[2], U2))

\* couple returned a model for gains that close an algebraic loop: L1 is not
\* the identity
C24_Witness ==
    /\ C24_Case /\ ret.exc = ""
    /\ Loop1 # eye(G12.r)
    /\ states(S1) = 2 /\ inputs(S2) = 2

-----------------------------------------------------------------------------
(* Claims on the partition of the block model *)

\* the block model
Blk == objs[1]

\* S lists the row sizes of the block rows of M
RowSizes(M, S) ==
    /\ Len(M) = Len(S)
    /\ \A i \in 1..Len(M) : \A j \in 1..Len(M[i]) : M[i][j][2] = S[i]

\* S lists the column sizes of the block columns of M
ColSizes(M, S) ==
    \A i \in 1..Len(M) :
        /\ Len(M[i]) = Len(S)
        /\ \A j \in 1..Len(S) : M[i][j][3] = S[j]

\* inputs, outputs, states and the partition agree with the stored blocks
Partitioned(o) ==
    /\ o.inputs = SumF(o.S_u, Len(o.S_u))
    /\ o.outputs = SumF(o.S_y, Len(o.S_y))
    /\ o.states = SumF(o.S_x, Len(o.S_x))
    /\ o.blocks_u = Len(o.S_u) /\ o.blocks_y = Len(o.S_y) /\ o.blocks_x = Len(o.S_x)
    /\ ColSizes(o.B, o.S_u) /\ ColSizes(o.D, o.S_u)
    /\ RowSizes(o.C, o.S_y) /\ RowSizes(o.D, o.S_y)
    /\ RowSizes(o.A, o.S_x)

\* C26: after addGain, remove_block and project(overwrite=True) calls that
\* return, inputs = sum(S_u), outputs = sum(S_y), states = sum(S_x), and
\* S_u, S_y, S_x (with blocks_u, blocks_y, blocks_x their lengths) list the
\* sizes of the block columns of B and D, the block rows of C and D and the
\* block rows of A that the model stores; here after the first call.
C26_PartitionKept ==
    (steps = 1 /\ ret.exc = "") => Partitioned(Blk)

\* C26 for addGain alone: a first addGain that returns keeps the partition
C26_AddGainKeeps ==
    (steps = 1 /\ ret.exc = "" /\ ret.op = "addGain") => Partitioned(Blk)

\* remove_block('in', 0) on a model as built with two input blocks returned:
\* B has one block column left, the model still reports two blocks and three
\* inputs
C26_Witness ==
    /\ steps = 1 /\ ret.op = "remove_block" /\ ret.exc = ""
    /\ ret.val.where = "in" /\ ret.val.index = 0
    /\ Len(Blk.B[1]) = 1 /\ Blk.B[1][1] = <<"B", 1, 2>>
    /\ Blk.blocks_u = 2 /\ Blk.S_u = <<1, 2>> /\ Blk.inputs = 3

\* project(WT, V, overwrite=True) onto one state returned on a model with two
\* state blocks: A is one block of size 1, the model still reports two blocks
\* and three states
C26_WitnessProject ==
    /\ steps = 1 /\ ret.op = "project" /\ ret.exc = ""
    /\ Blk.A = << << <<"A", 1, 1>> >> >>
    /\ Blk.blocks_x = 2 /\ Blk.states = 3

-----------------------------------------------------------------------------
(* Claims on the effect of the method disc2cont *)

\* C27: after the method disc2cont() has returned on a discrete-time model,
\* that same model holds the bilinear-transformed matrices, those the
\* function disc2cont returns for it, and its dt is absent.
C27_ConvertsInPlace ==
    [][(ret'.op = "ss.disc2cont" /\ ret'.exc = "" /\ objs[1].dt # NoDt) =>
          /\ objs'[1].dt = NoDt
          /\ Mats(heap', objs'[1]) =
                Mats(disc2cont(heap, objs[1]).h, disc2cont(heap, objs[1]).out)]_steps

\* the method returned on a discrete-time model with two states: the model is
\* still discrete-time and holds other matrices than the converted ones
C27_Witness ==
    /\ ret.op = "ss.disc2cont" /\ ret.exc = ""
    /\ Model.dt = Dt(1, 0) /\ Model.A.r = 2
    /\ disc2cont(heap, Model).exc = ""
    /\ Mats(heap, Model) # Mats(disc2cont(heap, Model).h, disc2cont(heap, Model).out)

-----------------------------------------------------------------------------
(* Claims on the construction invariants *)

\* the call that has just been made is one of the in-place methods; project
\* was given WT of shape (k, n) and V of shape (n, k)
C28_Case ==
    /\ ret'.op \in {"addGain", "scale", "project", "truncate", "remove_inout_channels"}
    /\ ret'.exc = ""
    /\ ret'.op = "project" =>
          /\ ArgWT.c = states(Before) /\ ArgV.r = states(Before)
          /\ ArgWT.r = ArgV.c

\* C28: a call of addGain, scale, project, truncate or remove_inout_channels
\* that returns without error on a model that satisfies the construction
\* invariants (A square n x n, B with n rows, C with n columns, D with C's
\* row count and B's column count) leaves a model that satisfies them.
C28_InvariantsKept ==
    [][(C28_Case /\ Consistent(Before)) => Consistent(After)]_steps

\* C28 on models whose B and D are matrices
C28_InvariantsKept2D ==
    [][(C28_Case /\ Consistent(Before) /\ Before.B.nd = 2 /\ Before.D.nd = 2) =>
          (Consistent(After) /\ After.B.nd = 2 /\ After.D.nd = 2)]_steps

\* addGain('in') with a gain of shape (1, 2) returned on a model with one
\* state whose B and D are vectors: B is now a vector of length 2 next to a
\* 1 x 1 A
C28_Witness ==
    /\ ret.op = "addGain" /\ ret.exc = "" /\ steps = 1
    /\ objs[ret.obj].A.r = 1
    /\ objs[ret.obj].B.nd = 1 /\ objs[ret.obj].B.r = 2
    /\ ~Consistent(objs[ret.obj])

-----------------------------------------------------------------------------
(* An operation by value followed by a scaling by reference.  objs[1] is    *)
(* the operand, objs[2..4] the arrays WT = V, Kmat for 'in' and Kmat for    *)
(* 'out'; the model the first call returns becomes objs[5].                 *)

\* scalings of the state alone: uniform, and per state
StateScaleArgs(Nst) ==
    { <<Scalar(1), Scalar(1), Scalar(-1)>>,
      <<Scalar(1), Scalar(1), List([j \in 1..Nst |-> IF j = 1 THEN 1 ELSE -1])>> }

\* scalings of the inputs alone and of the outputs alone
ChannelScaleArgs ==
    { <<Scalar(2), Scalar(1), Scalar(1)>>,
      <<Scalar(1), Scalar(-1), Scalar(1)>> }

InitVal ==
    \E n \in ModelDims, m \in ModelDims, p \in ModelDims,
       s \in 0..2, tr \in BOOLEAN :
        LET a == Gen(2, n, n, s)
            s1 == mk(<<>>, "ss", IF tr THEN transpose(a) ELSE a, Gen(2, n, m, s + 1),
                     Gen(2, p, n, s + 2), Gen(2, p, m, s), Dt(1, 0))
            v == alloc(s1.h, eye(n))
            kin == alloc(v.h, Gen(2, m, m, 1))
            kout == alloc(kin.h, Gen(2, p, p, 2))
        IN  /\ heap = kout.h
            /\ objs = <<s1.o, gain(v.ref), gain(kin.ref), gain(kout.ref)>>
            /\ ret = Out("none", 0, "", 0)
            /\ steps = 0

\* project(S1, WT, V)
ProjectByValue ==
    Call("project", project(heap, objs[1], objs[2].A, objs[2].A), 0)

\* addGain(S1, Kmat, where)
AddGainByValue ==
    \E where \in {"in", "out"} :
        Call("addGain",
             addGain(heap, objs[1], objs[IF where = "in" THEN 3 ELSE 4].A, where),
             where)

\* scale_SS(S1, ..., byref=False)
ScaleByValue ==
    \E sc \in ChannelScaleArgs \cup StateScaleArgs(objs[1].A.r) :
        LET res == scale_SS(heap, objs[1], sc[1], sc[2], sc[3], FALSE)
        IN  /\ res.exact
            /\ Call("scale_SS", res, [target |-> 1, sc |-> sc])

\* scale_SS(S, ..., byref=True) on the operand or on the model returned
ScaleByRef ==
    \E t \in {1, 5},
       sc \in ChannelScaleArgs \cup StateScaleArgs(objs[1].A.r) :
        /\ steps = 1
        /\ ret.exc = ""
        /\ LET res == scale_SS(heap, objs[t], sc[1], sc[2], sc[3], TRUE)
           IN  /\ res.exact
               /\ heap' = res.h
               /\ objs' = [objs EXCEPT ![t] = res.o]
               /\ ret' = Out("scale_byref", IF res.exc = "" THEN t ELSE 0, res.exc,
                             [first |-> ret.op, target |-> t, sc |-> sc])
               /\ steps' = 2

NextVal ==
    \/ ProjectByValue
    \/ AddGainByValue
    \/ ScaleByValue
    \/ ScaleByRef

SpecVal == InitVal /\ [][NextVal]_vars

\* the model of the pair (operand, returned model) that the call did not scale
Other == IF ret'.val.target = 1 THEN 5 ELSE 1

\* C29: a model returned by a by-value operation (project, addGain, scale_SS
\* with byref=False) shares no matrix with its operand: a by-reference scale
\* of either leaves the A, B, C and D of the other unchanged.
C29_NoSharedMatrix ==
    [][(ret'.op = "scale_byref" /\ ret'.exc = "")
       => Mats(heap', objs'[Other]) = Mats(heap, objs[Other])]_steps

\* C29 for scale_SS with byref=False alone: the copy is deep
C29_ScaleCopyIsDeep ==
    [][(ret'.op = "scale_byref" /\ ret'.exc = "" /\ ret'.val.first = "scale_SS")
       => Mats(heap', objs'[Other]) = Mats(heap, objs[Other])]_steps

\* project returned a model, its inputs were then scaled by 2 by reference,
\* and the D of the operand is the array that was scaled
C29_Witness ==
    /\ ret.op = "scale_byref" /\ ret.exc = ""
    /\ ret.val.first = "project" /\ ret.val.target = 5
    /\ ret.val.sc = <<Scalar(2), Scalar(1), Scalar(1)>>
    /\ objs[1].D = objs[5].D
    /\ \E i \in 1..objs[1].D.r, j \in 1..objs[1].D.c :
           val(heap, objs[1].D).e[i][j] \in {2, -2}

\* the last call scaled the state alone, by non-zero factors, and returned
C30_Case ==
    /\ ret'.op \in {"scale_SS", "scale_byref"} /\ ret'.exc = ""
    /\ ret'.val.sc[1] = Scalar(1) /\ ret'.val.sc[2] = Scalar(1)
    /\ \A k \in 1..Len(ret'.val.sc[3].v) : ret'.val.sc[3].v[k] # 0

\* the scaled model has the Markov parameters of the model before the call
SameResponse ==
    \A k \in 0..MarkovLen :
        coeff(heap', objs'[ret'.obj], k) = coeff(heap, objs[ret'.val.target], k)

\* C30: scale with input_scal = output_scal = 1 and any non-zero state_scal,
\* uniform or per-state, leaves the input-output response unchanged.
C30_StateScalePure ==
    [][C30_Case => SameResponse]_steps

\* C30 for a uniform state_scal
C30_UniformStateScalePure ==
    [][(C30_Case /\ ~ret'.val.sc[3].isList) => SameResponse]_steps

\* a per-state scaling by (1, -1) returned a copy of a model with two
\* states, and the response of the copy differs from that of the operand
C30_Witness ==
    /\ ret.op = "scale_SS" /\ ret.exc = ""
    /\ ret.val.sc = <<Scalar(1), Scalar(1), List(<<1, -1>>)>>
    /\ \E k \in 0..MarkovLen : coeff(heap, objs[5], k) # coeff(heap, objs[1], k)

====
